---- MODULE Spec2Model ----
(***************************************************************************)
(* rCAPTCHA server: challenge generator, verification pipeline, session    *)
(* state machine, single-shot challenge store and token lifecycle.         *)
(*                                                                         *)
(* Text is modelled character by character: a text is a sequence of        *)
(* one-character strings, so trimming, tokenising, word-boundary matching  *)
(* and integer parsing are computed, not assumed.                          *)
(***************************************************************************)
EXTENDS Integers, Sequences, FiniteSets, TLC

VARIABLES
  gen,   \* generator run: the challenge last produced by generateCoherentChallenge
  ver,   \* verification run: one verifyCoherent call and its oracle round trip
  now,                \* Date.now(), in ms since the server started
  sessions,           \* sessions.ts: the keys of the Map sessions
  sessionObjs,        \* the session objects ever created, by id
  challengeStore,     \* challenges/index.ts: the keys of the Map challengeStore
  challengeObjs,      \* the challenge objects ever created, by id
  tokenStore,         \* token.ts: MemoryTokenStore.tokens
  rateChallengeStore, \* rateLimit.ts: challengeStore (/challenge, /auth/start)
  submitStore,        \* rateLimit.ts: submitStore (/auth/submit)
  pending,            \* the handlers suspended in the request to the oracle, each
                      \* with the challenge it passed to verifyCoherent
  response,           \* the response sent last
  fresh,              \* the next outcome of a random identifier draw
  handled,            \* the number of requests taken so far
  flooding,           \* the requests of a burst still to come
  issued,             \* history: every token ever created and what created it
  redemptions,        \* history: the answers of /validate for each token
  admission,          \* the admission check made for the request taken last
  limiter,            \* history: the admission checks of each bucket
  request,            \* the request taken last
  blockLog,           \* history: the challenge ids of each session's blocks
  deleted,            \* history: the session ids that deleteSession was called with
  wsData,             \* the data of every WebSocket ever opened, by connection
  totalConnections,   \* server.ts: totalConnections
  connectionsPerIp,   \* server.ts: the Map connectionsPerIp
  failureTracker,     \* logger.ts: the Map failureTracker
  loggerConfig,       \* logger.ts: loggerConfig
  logged,             \* the outcome of the last call of logFailure
  failures,           \* history: every call of logFailure, with its time
  peeks               \* history: the calls of isTokenValid and getTokenInfo that
                      \* found each token

\* the WebSocket connections and the logger
wsVars == <<wsData, totalConnections, connectionsPerIp>>
logVars == <<failureTracker, loggerConfig, logged, failures>>

flowVars ==
  <<now, sessions, sessionObjs, challengeStore, challengeObjs, tokenStore,
    rateChallengeStore, submitStore, pending, response, fresh, handled, flooding,
    issued, redemptions, admission, limiter, request, blockLog, deleted, wsVars,
    logVars, peeks>>

vars == <<gen, ver, flowVars>>

(***************************************************************************)
(* Characters                                                              *)
(***************************************************************************)
LowerLetters ==
  <<"a","b","c","d","e","f","g","h","i","j","k","l","m",
    "n","o","p","q","r","s","t","u","v","w","x","y","z">>

UpperLetters ==
  <<"A","B","C","D","E","F","G","H","I","J","K","L","M",
    "N","O","P","Q","R","S","T","U","V","W","X","Y","Z">>

DigitChars == <<"0","1","2","3","4","5","6","7","8","9">>

Range(f) == {f[i] : i \in DOMAIN f}

UpperSet == Range(UpperLetters)

DigitSet == Range(DigitChars)

WordCharSet == Range(LowerLetters) \cup UpperSet \cup DigitSet \cup {"_"}

WhiteSpace == {" ", "\t"}

\* /\s/ and String.prototype.trim(): the whitespace characters of the model
IsSpace(c) == c \in WhiteSpace

\* /\w/: [A-Za-z0-9_]
IsWordChar(c) == c \in WordCharSet

\* /[A-Z]/
IsUpper(c) == c \in UpperSet

IsDigit(c) == c \in DigitSet

DigitValue(c) == (CHOOSE i \in 1..10 : DigitChars[i] = c) - 1

\* String.prototype.toLowerCase(), one character
LowerChar(c) ==
  IF IsUpper(c) THEN LowerLetters[CHOOSE i \in 1..26 : UpperLetters[i] = c] ELSE c

toLowerCase(s) == [i \in 1..Len(s) |-> LowerChar(s[i])] \o <<>>

\* String.prototype.trim(): the text between the first and the last
\* non-whitespace character
trim(s) ==
  IF \A i \in 1..Len(s) : IsSpace(s[i]) THEN <<>>
  ELSE LET first == CHOOSE i \in 1..Len(s) :
                      ~IsSpace(s[i]) /\ \A j \in 1..(i - 1) : IsSpace(s[j])
           last  == CHOOSE i \in 1..Len(s) :
                      ~IsSpace(s[i]) /\ \A j \in (i + 1)..Len(s) : IsSpace(s[j])
       IN SubSeq(s, first, last)

\* "c".repeat(n)
Repeat(c, n) == [i \in 1..n |-> c] \o <<>>

NOUNS ==
  <<
    <<"a","p","p","l","e">>,
    <<"t","e","l","e","s","c","o","p","e">>,
    <<"m","o","u","n","t","a","i","n">>,
    <<"r","i","v","e","r">>,
    <<"b","u","t","t","e","r","f","l","y">>,
    <<"c","a","s","t","l","e">>,
    <<"d","r","a","g","o","n">>,
    <<"l","i","b","r","a","r","y">>,
    <<"v","o","l","c","a","n","o">>,
    <<"u","m","b","r","e","l","l","a">>,
    <<"p","e","n","g","u","i","n">>,
    <<"l","i","g","h","t","h","o","u","s","e">>,
    <<"w","h","i","s","p","e","r">>,
    <<"t","h","u","n","d","e","r">>,
    <<"g","a","r","d","e","n">>,
    <<"c","r","y","s","t","a","l">>,
    <<"s","h","a","d","o","w">>,
    <<"m","e","l","o","d","y">>,
    <<"p","u","z","z","l","e">>,
    <<"c","o","m","p","a","s","s">>,
    <<"l","a","n","t","e","r","n">>,
    <<"f","e","a","t","h","e","r">>,
    <<"a","n","c","h","o","r">>,
    <<"r","a","i","n","b","o","w">>,
    <<"b","r","i","d","g","e">>,
    <<"m","i","r","r","o","r">>,
    <<"c","a","n","d","l","e">>,
    <<"f","o","r","e","s","t">>,
    <<"i","s","l","a","n","d">>,
    <<"t","r","e","a","s","u","r","e">>,
    <<"c","l","o","c","k">>,
    <<"s","t","o","r","m">>,
    <<"d","i","a","m","o","n","d">>,
    <<"s","u","n","s","e","t">>,
    <<"k","e","y","b","o","a","r","d">>
  >>

ADJECTIVES ==
  <<
    <<"p","u","r","p","l","e">>,
    <<"a","n","c","i","e","n","t">>,
    <<"s","i","l","e","n","t">>,
    <<"g","o","l","d","e","n">>,
    <<"f","r","o","z","e","n">>,
    <<"h","i","d","d","e","n">>,
    <<"c","u","r","i","o","u","s">>,
    <<"g","e","n","t","l","e">>,
    <<"f","i","e","r","c","e">>,
    <<"m","y","s","t","e","r","i","o","u","s">>,
    <<"b","r","i","l","l","i","a","n","t">>,
    <<"h","o","l","l","o","w">>,
    <<"d","i","s","t","a","n","t">>,
    <<"s","a","c","r","e","d">>,
    <<"f","r","a","g","i","l","e">>,
    <<"e","n","d","l","e","s","s">>,
    <<"v","i","v","i","d">>,
    <<"t","r","a","n","q","u","i","l">>,
    <<"b","o","l","d">>,
    <<"s","u","b","t","l","e">>
  >>

VERBS ==
  <<
    <<"w","h","i","s","p","e","r">>,
    <<"d","a","n","c","e">>,
    <<"c","l","i","m","b">>,
    <<"d","i","s","c","o","v","e","r">>,
    <<"r","e","m","e","m","b","e","r">>,
    <<"c","h","a","s","e">>,
    <<"e","m","b","r","a","c","e">>,
    <<"w","a","n","d","e","r">>,
    <<"c","r","e","a","t","e">>,
    <<"b","e","l","i","e","v","e">>,
    <<"v","a","n","i","s","h">>,
    <<"e","m","e","r","g","e">>,
    <<"t","r","a","n","s","f","o","r","m">>,
    <<"p","r","o","t","e","c","t">>
  >>

TIME_WORDS ==
  <<
    <<"y","e","s","t","e","r","d","a","y">>,
    <<"t","o","m","o","r","r","o","w">>,
    <<"w","e","d","n","e","s","d","a","y">>,
    <<"m","i","d","n","i","g","h","t">>,
    <<"s","u","n","r","i","s","e">>,
    <<"a","u","t","u","m","n">>,
    <<"f","o","r","e","v","e","r">>,
    <<"s","u","d","d","e","n","l","y">>,
    <<"e","v","e","n","t","u","a","l","l","y">>,
    <<"m","e","a","n","w","h","i","l","e">>
  >>

(***************************************************************************)
(* Challenge generator (challenges/coherent.ts)                            *)
(***************************************************************************)
WORDS_PER_CHALLENGE == 5

\* pickRandom(arr, n): every element gets a random 32-bit key, the array is
\* sorted by key and the first n elements are kept.  picks is the outcome of
\* the random keys: the positions of the n smallest keys, in key order, which
\* are n distinct positions of arr.
pickRandom(arr, picks) == [i \in 1..Len(picks) |-> arr[picks[i]]]

WordCountOf_Mod12(byte) == 15 + (byte % 12)

\* 15 + (randomByte[0] % 11)
WordCountOf(byte) == 15 + (byte % 11)

\* d is the outcome of the random draws of one call: the picks of each
\* pickRandom, the permutation left by the final sort(() => Math.random() - 0.5)
\* and the random byte of the word count.
generateCoherentChallenge(d) ==
  LET picked == pickRandom(NOUNS, d.nouns) \o pickRandom(ADJECTIVES, d.adj)
                  \o pickRandom(VERBS, d.verb) \o pickRandom(TIME_WORDS, d.time)
  IN [words     |-> [k \in 1..Len(picked) |-> picked[d.shuffle[k]]],
      wordCount |-> WordCountOf(d.byte),
      timeoutMs |-> 10000]

(***************************************************************************)
(* Verification pipeline (challenges/coherent.ts)                          *)
(***************************************************************************)
MAX_SENTENCE_LENGTH == 10000

\* new RegExp(`\\b${word}\\b`).test(s), for a word made of letters: the word
\* occurs at some position with a word boundary on both sides.  \b holds
\* between two positions when exactly one of them holds a word character (the
\* ends of the text count as non-word).
WordCharAt(s, i) == i >= 1 /\ i <= Len(s) /\ IsWordChar(s[i])

BoundaryBefore(s, i) == WordCharAt(s, i - 1) # WordCharAt(s, i)

RegexWordTest_Substring(word, s) ==
  \E i \in 1..(Len(s) - Len(word) + 1) : \A k \in 1..Len(word) : s[i + k - 1] = word[k]

RegexWordTest(word, s) ==
  \E i \in 1..(Len(s) - Len(word) + 1) :
    /\ \A k \in 1..Len(word) : s[i + k - 1] = word[k]
    /\ BoundaryBefore(s, i)
    /\ BoundaryBefore(s, i + Len(word))

\* containsAllWords: the required words that fail the test, in challenge order
containsAllWords(sentence, words) ==
  LET lowerSentence == toLowerCase(sentence)
      miss == {i \in 1..Len(words) : ~RegexWordTest(toLowerCase(words[i]), lowerSentence)}
      \* the k-th missing word: the word at the k-th smallest missing position
      nth(k) == CHOOSE i \in miss : Cardinality({j \in miss : j < i}) = k - 1
  IN [valid   |-> miss = {},
      missing |-> [k \in 1..Cardinality(miss) |-> words[nth(k)]]]

\* countWords: sentence.trim().split(/\s+/).filter(w => w.length > 0).length.
\* Splitting on runs of whitespace yields the maximal runs of non-whitespace
\* characters (and one empty string for an empty text, which the filter
\* drops); each run is counted at its first character.
countWords(sentence) ==
  LET t == trim(sentence)
  IN Cardinality({i \in 1..Len(t) : ~IsSpace(t[i]) /\ (i = 1 \/ IsSpace(t[i - 1]))})

basicGrammarCheck(sentence) ==
  LET trimmed == trim(sentence)
  IN IF Len(trimmed) = 0
       THEN [valid |-> FALSE, error |-> "Empty sentence"]
     ELSE IF ~IsUpper(trimmed[1])
       THEN [valid |-> FALSE, error |-> "Sentence should start with a capital letter"]
     ELSE IF trimmed[Len(trimmed)] \notin {".", "!", "?"}
       THEN [valid |-> FALSE, error |-> "Sentence should end with punctuation (.!?)"]
     ELSE [valid |-> TRUE, error |-> ""]

\* parseInt(content, 10): leading whitespace is skipped, an optional sign is
\* read, then the longest run of decimal digits; NaN when that run is empty.
RECURSIVE DigitsValue(_, _)
DigitsValue(s, acc) ==
  IF s = <<>> \/ ~IsDigit(Head(s)) THEN acc
  ELSE DigitsValue(Tail(s), 10 * acc + DigitValue(Head(s)))

RECURSIVE SkipSpace(_)
SkipSpace(s) == IF s # <<>> /\ IsSpace(Head(s)) THEN SkipSpace(Tail(s)) ELSE s

parseInt(content) ==
  LET t      == SkipSpace(content)
      signed == t # <<>> /\ Head(t) \in {"-", "+"}
      body   == IF signed THEN Tail(t) ELSE t
  IN IF body = <<>> \/ ~IsDigit(Head(body))
       THEN [isNaN |-> TRUE, value |-> 0]
       ELSE [isNaN |-> FALSE,
             value |-> IF signed /\ Head(t) = "-"
                         THEN 0 - DigitsValue(body, 0) ELSE DigitsValue(body, 0)]

\* checkCoherence.  apiKey: whether OPENAI_API_KEY is set.  reply: what the
\* request to the oracle came to:
\*   "fetch_throws"        fetch rejected (network error, timeout)
\*   "not_ok"              a response with response.ok false
\*   "bad_json"            response.json() rejected
\*   "json_null"           the body is JSON null: data.choices throws
\*   "content_not_string"  content is not a string: content.trim throws
\*   "no_content"          a JSON body without choices[0].message.content
\*   "content"             a JSON body whose content is reply.content
\* CoherenceTry is the body of the try block, threw its leaving by an exception.
CoherenceTry(reply) ==
  IF reply.kind \in {"fetch_throws", "bad_json", "json_null", "content_not_string"}
    THEN [threw |-> TRUE, score |-> 0, error |-> ""]
  ELSE IF reply.kind = "not_ok"
    THEN [threw |-> FALSE, score |-> 7, error |-> "API error, defaulting to pass"]
  ELSE LET content == IF reply.kind = "content" THEN trim(reply.content) ELSE <<>>
           score   == parseInt(content)
       IN IF score.isNaN \/ score.value < 1 \/ score.value > 10
            THEN [threw |-> FALSE, score |-> 7, error |-> ""]
            ELSE [threw |-> FALSE, score |-> score.value, error |-> ""]

checkCoherence_NoCatch(apiKey, reply) ==
  IF ~apiKey THEN [threw |-> FALSE, score |-> 7, error |-> ""] ELSE CoherenceTry(reply)

checkCoherence(apiKey, reply) ==
  IF ~apiKey THEN [threw |-> FALSE, score |-> 7, error |-> ""]
  ELSE LET r == CoherenceTry(reply)
       IN IF r.threw
            THEN [threw |-> FALSE, score |-> 7, error |-> "Check failed, defaulting to pass"]
            ELSE r

ExceedsMaxLength_Never(sentence) == FALSE

\* if (sentence.length > MAX_SENTENCE_LENGTH)
ExceedsMaxLength(sentence) == Len(sentence) > MAX_SENTENCE_LENGTH

\* the errors pushed by checks 1-3 of verifyCoherent, in the order of the checks
LocalErrors(challenge, sentence) ==
  LET wordCheck    == containsAllWords(sentence, challenge.words)
      actualCount  == countWords(sentence)
      grammarCheck == basicGrammarCheck(sentence)
      e1 == IF ~wordCheck.valid
              THEN <<[kind |-> "Missing words", missing |-> wordCheck.missing]>>
              ELSE <<>>
      e2 == IF actualCount # challenge.wordCount
              THEN <<[kind |-> "Word count", expected |-> challenge.wordCount,
                      got |-> actualCount]>>
              ELSE <<>>
      e3 == IF ~grammarCheck.valid
              THEN <<[kind |-> "Grammar", message |-> grammarCheck.error]>>
              ELSE <<>>
  IN e1 \o e2 \o e3

VerifyLocal_FirstErrorOnly(challenge, answer) ==
  LET all == LocalErrors(challenge, trim(answer))
  IN [tooLong |-> FALSE, errors |-> IF all = <<>> THEN <<>> ELSE <<Head(all)>>]

\* verifyCoherent up to the await: the length guard and checks 1-3.
\* tooLong: the early return; errors: the errors collected so far.
VerifyLocal(challenge, answer) ==
  LET sentence == trim(answer)
  IN IF ExceedsMaxLength(sentence)
       THEN [tooLong |-> TRUE,
             errors  |-> <<[kind |-> "Sentence too long", length |-> Len(sentence)]>>]
       ELSE [tooLong |-> FALSE, errors |-> LocalErrors(challenge, sentence)]

\* the result returned when checks 1-3 found errors or the length guard fired
VerifyRejected(local) ==
  [raised |-> FALSE, valid |-> FALSE, errors |-> local.errors, coherenceScore |-> <<>>]

\* the rest of verifyCoherent, after checkCoherence answered (an exception of
\* checkCoherence would leave verifyCoherent, which has no handler)
VerifyJudged(coherence) ==
  LET errors == IF coherence.score < 7
                  THEN <<[kind |-> "Sentence not coherent enough",
                          score |-> coherence.score]>>
                  ELSE <<>>
  IN IF coherence.threw
       THEN [raised |-> TRUE, valid |-> FALSE, errors |-> <<>>, coherenceScore |-> <<>>]
       ELSE [raised |-> FALSE, valid |-> Len(errors) = 0, errors |-> errors,
             coherenceScore |-> <<coherence.score>>]

(***************************************************************************)
(* Generator runs                                                          *)
(***************************************************************************)
\* The outcomes of the random draws that are explored.  Distinctness of the
\* words is a property of pairs of picks, so the draws vary the picks of two
\* categories at a time over the whole pools (the two nouns count as one
\* category); the byte and the final permutation are varied over all of their
\* values on their own.
Pairs(n) == {p \in (1..n) \X (1..n) : p[1] # p[2]}

Permutations5 ==
  {p \in [1..WORDS_PER_CHALLENGE -> 1..WORDS_PER_CHALLENGE] :
     \A i, j \in 1..WORDS_PER_CHALLENGE : i # j => p[i] # p[j]}

Draw(n, a, v, t, s, b) ==
  [nouns |-> n, adj |-> <<a>>, verb |-> <<v>>, time |-> <<t>>, shuffle |-> s, byte |-> b]

IdentityShuffle == [i \in 1..WORDS_PER_CHALLENGE |-> i]

GenIdle == [pc |-> "idle"]

GenInit == gen = GenIdle

\* one call of generateCoherentChallenge whose random draws come out as d
Generate(d) ==
  /\ gen.pc = "idle"
  /\ gen' = [pc |-> "generated", draw |-> d, challenge |-> generateCoherentChallenge(d)]
  /\ UNCHANGED <<ver, flowVars>>

NounPairs == Pairs(Len(NOUNS))

GenerateChallenge ==
  /\ gen.pc = "idle"
  /\ \/ \E n \in NounPairs, v \in 1..Len(VERBS) :
          Generate(Draw(n, 1, v, 1, IdentityShuffle, 0))
     \/ \E n \in NounPairs, a \in 1..Len(ADJECTIVES) :
          Generate(Draw(n, a, 1, 1, IdentityShuffle, 0))
     \/ \E n \in NounPairs, t \in 1..Len(TIME_WORDS) :
          Generate(Draw(n, 1, 1, t, IdentityShuffle, 0))
     \/ \E a \in 1..Len(ADJECTIVES), v \in 1..Len(VERBS), t \in 1..Len(TIME_WORDS) :
          Generate(Draw(<<1, 2>>, a, v, t, IdentityShuffle, 0))
     \/ \E s \in Permutations5 : Generate(Draw(<<1, 2>>, 1, 1, 1, s, 0))
     \/ \E b \in 0..255 : Generate(Draw(<<1, 2>>, 1, 1, 1, IdentityShuffle, b))

\* the caller drops the challenge; the next call may follow
GenerateAgain ==
  /\ gen.pc = "generated"
  /\ gen' = GenIdle
  /\ UNCHANGED <<ver, flowVars>>

(***************************************************************************)
(* Verification runs                                                       *)
(***************************************************************************)
MaxLen == 5
MaxWordCount == 3
MaxReplyLen == 2

Sigma == {"a", "b", "A", " ", "."}

ReplyChars == {"0", "1", "6", "7", "-", " ", "x"}

TextsOver(alphabet, n) == UNION {[1..k -> alphabet] : k \in 0..n}

\* A candidate is pre . padCh^padN . post: short texts have no padding, long
\* ones reach the length limit with a run of one character.
Candidate(pre, padCh, padN, post) ==
  [pre |-> pre, padCh |-> padCh, padN |-> padN, post |-> post]

CandidateText(c) == c.pre \o Repeat(c.padCh, c.padN) \o c.post

ShortCandidates == {Candidate(t, " ", 0, <<>>) : t \in TextsOver(Sigma, MaxLen)}

\* Candidates around the length limit: a sentence of two words of exactly
\* MAX_SENTENCE_LENGTH characters and one character more, a short sentence
\* padded with whitespace before, after and inside, and a single long word.
LongCandidates ==
  {Candidate(<<"A", " ">>, "a", MAX_SENTENCE_LENGTH - 3, <<".">>),
   Candidate(<<"A", " ">>, "a", MAX_SENTENCE_LENGTH - 2, <<".">>),
   Candidate(<<>>, " ", MAX_SENTENCE_LENGTH - 3, <<"A", " ", "a", ".">>),
   Candidate(<<"A", " ", "a", ".">>, " ", MAX_SENTENCE_LENGTH - 3, <<>>),
   Candidate(<<"A">>, " ", MAX_SENTENCE_LENGTH - 2, <<".">>),
   Candidate(<<"A">>, " ", MAX_SENTENCE_LENGTH - 1, <<".">>),
   Candidate(<<>>, "a", MAX_SENTENCE_LENGTH, <<".">>),
   Candidate(<<>>, "b", MAX_SENTENCE_LENGTH + 1, <<>>)}

Candidates == ShortCandidates \cup LongCandidates

VerifyWordLists ==
  {<< <<"a">> >>, << <<"a">>, <<"b">> >>, << <<"a", "b">>, <<"a">> >>,
   << <<"b">>, <<"a", "b">> >>}

VerifyChallenges ==
  {[words |-> w, wordCount |-> n, timeoutMs |-> 10000] :
     w \in VerifyWordLists, n \in 1..MaxWordCount}

OracleReplies ==
  {[kind |-> k, content |-> <<>>] :
     k \in {"fetch_throws", "not_ok", "bad_json", "json_null",
            "content_not_string", "no_content"}}
  \cup {[kind |-> "content", content |-> c] : c \in TextsOver(ReplyChars, MaxReplyLen)}

VerIdle == [pc |-> "idle"]

VerInit == ver = VerIdle

NeedsCoherence_Always(local) == ~local.tooLong

\* if (errors.length === 0): the coherence check runs only then
NeedsCoherence(local) == ~local.tooLong /\ Len(local.errors) = 0

\* verifyCoherent, from the call to its return or to the await of the oracle.
\* apiKey: whether OPENAI_API_KEY is set when checkCoherence reads it (without
\* one it returns at once, no request made).
VerifyCall ==
  /\ ver.pc = "idle"
  /\ \E ch \in VerifyChallenges, c \in Candidates :
       LET local == VerifyLocal(ch, CandidateText(c))
       IN \E apiKey \in BOOLEAN :
            LET call == [challenge |-> ch, candidate |-> c, apiKey |-> apiKey]
            IN IF ~NeedsCoherence(local)
                 THEN ver' = call @@ [pc |-> "returned", fetches |-> 0, reply |-> <<>>,
                                      result |-> VerifyRejected(local)]
               ELSE IF ~apiKey
                 THEN ver' = call @@ [pc |-> "returned", fetches |-> 0, reply |-> <<>>,
                                      result |-> VerifyJudged(checkCoherence(FALSE, <<>>))]
               ELSE ver' = call @@ [pc |-> "awaiting", fetches |-> 1, reply |-> <<>>,
                                    result |-> <<>>]
  /\ UNCHANGED <<gen, flowVars>>

\* the oracle request ends and verifyCoherent resumes
OracleReply ==
  /\ ver.pc = "awaiting"
  /\ \E r \in OracleReplies :
       ver' = [ver EXCEPT !.pc = "returned", !.reply = <<r>>,
                          !.result = VerifyJudged(checkCoherence(TRUE, r))]
  /\ UNCHANGED <<gen, flowVars>>

\* the caller takes the result; the next call may follow
VerifyReturn ==
  /\ ver.pc = "returned"
  /\ ver' = VerIdle
  /\ UNCHANGED <<gen, flowVars>>

(***************************************************************************)
(* Server state (server.ts, sessions.ts, token.ts, challenges/index.ts,    *)
(* rateLimit.ts)                                                           *)
(*                                                                         *)
(* Times are milliseconds since the server started.  Identifiers and       *)
(* token strings come from crypto.getRandomValues; a run draws them as     *)
(* the next value of the counter fresh, so that two draws never give the   *)
(* same string (the strings carry 96 to 256 random bits).  Objects that a  *)
(* suspended handler still refers to live on after their key left the Map: *)
(* sessionObjs and challengeObjs hold the objects, sessions and            *)
(* challengeStore the keys of the Maps.  The console output and the        *)
(* failure tracker of logger.ts are left out: no handler reads them.       *)
(***************************************************************************)
\* config.challengeTimeoutMs and config.tokenExpiryMs, at their defaults
challengeTimeoutMs == 9000

tokenExpiryMs == 60000

SESSION_MAX_AGE_MS == 5 * 60 * 1000

MAX_BLOCKS == 3

\* the capacity of the Map sessions.  sessions.ts sets MAX_SESSIONS = 10000;
\* the runs are scaled down, to a Map that holds two sessions.
MAX_SESSIONS == 2

Remove(f, k) == [x \in DOMAIN f \ {k} |-> f[x]]

Put(f, k, v) == [x \in DOMAIN f \cup {k} |-> IF x = k THEN v ELSE f[x]]

(***************************************************************************)
(* Rate limiter (rateLimit.ts).  bucket.tokens is kept in units of 1/6000  *)
(* of a token, in which both refill rates are whole numbers per            *)
(* millisecond: 10/60 tokens per second is 1 unit per ms, 30/60 tokens per *)
(* second is 3 units per ms.                                               *)
(***************************************************************************)
TOKEN_UNIT == 6000

RATE_LIMITS ==
  [challenge |-> [maxTokens |-> 10 * TOKEN_UNIT, refillRate |-> 1],
   submit    |-> [maxTokens |-> 30 * TOKEN_UNIT, refillRate |-> 3]]

Min(a, b) == IF a < b THEN a ELSE b

Max(a, b) == IF a > b THEN a ELSE b

\* getBucket: the bucket of ip, created full when the store has none
getBucket(store, ip, config, t) ==
  IF ip \in DOMAIN store THEN store[ip]
  ELSE [tokens |-> config.maxTokens, lastRefill |-> t]

\* refillBucket without Math.min
refillBucket_Uncapped(bucket, config, t) ==
  [tokens     |-> bucket.tokens + (t - bucket.lastRefill) * config.refillRate,
   lastRefill |-> t]

refillBucket(bucket, config, t) ==
  [tokens     |-> Min(config.maxTokens,
                      bucket.tokens + (t - bucket.lastRefill) * config.refillRate),
   lastRefill |-> t]

CeilDiv(a, b) == (a + b - 1) \div b

\* checkRateLimit with bucket.tokens >= 0 for bucket.tokens >= 1
checkRateLimit_AdmitsAtZero(store, ip, config, t) ==
  LET bucket == refillBucket(getBucket(store, ip, config, t), config, t)
  IN IF bucket.tokens >= 0
       THEN [allowed |-> TRUE, retryAfterMs |-> 0,
             store |-> Put(store, ip, [bucket EXCEPT !.tokens = @ - TOKEN_UNIT])]
       ELSE [allowed |-> FALSE,
             retryAfterMs |-> CeilDiv(TOKEN_UNIT - bucket.tokens, config.refillRate),
             store |-> Put(store, ip, bucket)]

\* checkRateLimit that refills a fresh copy of the bucket on every call: the
\* stored lastRefill stays at the time the bucket was created
checkRateLimit_KeepsLastRefill(store, ip, config, t) ==
  LET stored == getBucket(store, ip, config, t)
      bucket == refillBucket(stored, config, t)
  IN IF bucket.tokens >= TOKEN_UNIT
       THEN [allowed |-> TRUE, retryAfterMs |-> 0,
             store |-> Put(store, ip, [tokens |-> bucket.tokens - TOKEN_UNIT,
                                       lastRefill |-> stored.lastRefill])]
       ELSE [allowed |-> FALSE,
             retryAfterMs |-> CeilDiv(TOKEN_UNIT - bucket.tokens, config.refillRate),
             store |-> Put(store, ip, [bucket EXCEPT !.lastRefill = stored.lastRefill])]

\* checkRateLimit at time t: the answer and the store it leaves
checkRateLimit(store, ip, config, t) ==
  LET bucket == refillBucket(getBucket(store, ip, config, t), config, t)
  IN IF bucket.tokens >= TOKEN_UNIT
       THEN [allowed |-> TRUE, retryAfterMs |-> 0,
             store |-> Put(store, ip, [bucket EXCEPT !.tokens = @ - TOKEN_UNIT])]
       ELSE [allowed |-> FALSE,
             retryAfterMs |-> CeilDiv(TOKEN_UNIT - bucket.tokens, config.refillRate),
             store |-> Put(store, ip, bucket)]

(***************************************************************************)
(* Sessions (sessions.ts)                                                  *)
(***************************************************************************)
generateSessionId(n) == <<"ses_", n>>

generateChallengeId(n) == <<"ch_", n>>

\* createSession that leaves blockStartedAt at 0
NewSession_NoBlockStart(clientIp, blockTimeoutMs, d, n, m, t) ==
  [id |-> generateSessionId(n), clientIp |-> clientIp, currentBlock |-> 1,
   maxBlocks |-> MAX_BLOCKS,
   challenge |-> [id |-> generateChallengeId(m)] @@ generateCoherentChallenge(d),
   blockStartedAt |-> 0, blockTimeoutMs |-> blockTimeoutMs, sessionCreatedAt |-> t,
   status |-> "active", passedAt |-> <<>>, failedAt |-> <<>>]

\* the session object built by createSession at time t; d are the random
\* draws of its challenge, n and m the draws of its two identifiers
NewSession(clientIp, blockTimeoutMs, d, n, m, t) ==
  [id |-> generateSessionId(n), clientIp |-> clientIp, currentBlock |-> 1,
   maxBlocks |-> MAX_BLOCKS,
   challenge |-> [id |-> generateChallengeId(m)] @@ generateCoherentChallenge(d),
   blockStartedAt |-> t, blockTimeoutMs |-> blockTimeoutMs, sessionCreatedAt |-> t,
   status |-> "active", passedAt |-> <<>>, failedAt |-> <<>>]

\* isBlockExpired that never reports a timeout
isBlockExpired_Never(session, t) == FALSE

isBlockExpired(session, t) == t - session.blockStartedAt > session.blockTimeoutMs

\* advanceToNextBlock: the session it leaves; the call returns false
\* exactly when the session was on its last block
CanAdvance_Always(session) == TRUE

CanAdvance(session) == session.currentBlock < session.maxBlocks

\* advanceToNextBlock that leaves a session on its last block as it is
advanceToNextBlock_LastBlockStaysActive(session, d, m, t) ==
  IF ~CanAdvance(session)
    THEN session
    ELSE [session EXCEPT !.currentBlock = @ + 1,
                         !.challenge = [id |-> generateChallengeId(m)]
                                         @@ generateCoherentChallenge(d),
                         !.blockStartedAt = t]

\* advanceToNextBlock that keeps the challenge of the block before
advanceToNextBlock_KeepsChallenge(session, d, m, t) ==
  IF ~CanAdvance(session)
    THEN [session EXCEPT !.status = "failed", !.failedAt = <<t>>]
    ELSE [session EXCEPT !.currentBlock = @ + 1, !.blockStartedAt = t]

advanceToNextBlock(session, d, m, t) ==
  IF ~CanAdvance(session)
    THEN [session EXCEPT !.status = "failed", !.failedAt = <<t>>]
    ELSE [session EXCEPT !.currentBlock = @ + 1,
                         !.challenge = [id |-> generateChallengeId(m)]
                                         @@ generateCoherentChallenge(d),
                         !.blockStartedAt = t]

\* markSessionPassed that leaves a session whose block has timed out as it is
markSessionPassed_OnlyInTime(session, t) ==
  IF isBlockExpired(session, t) THEN session
  ELSE [session EXCEPT !.status = "passed", !.passedAt = <<t>>]

markSessionPassed(session, t) == [session EXCEPT !.status = "passed", !.passedAt = <<t>>]

\* the place of session j before session k in [...sessions.entries()].sort(
\* (a, b) => a[1].sessionCreatedAt - b[1].sessionCreatedAt): by creation
\* time and, the sort being stable, by insertion into the Map among equals;
\* the identifiers are drawn in the order of insertion
SortedBefore(objs, j, k) ==
  \/ objs[j].sessionCreatedAt < objs[k].sessionCreatedAt
  \/ /\ objs[j].sessionCreatedAt = objs[k].sessionCreatedAt
     /\ j[2] < k[2]

\* cleanupOldSessions that keeps the sessions still active
cleanupOldSessions_KeepsActive(keys, objs, t) ==
  {k \in keys : \/ ~(t - objs[k].sessionCreatedAt > SESSION_MAX_AGE_MS)
                \/ objs[k].status = "active"}

\* cleanupOldSessions that evicts down to one entry below MAX_SESSIONS
cleanupOldSessions_EvictsBelowLimit(keys, objs, t) ==
  LET young == {k \in keys : ~(t - objs[k].sessionCreatedAt > SESSION_MAX_AGE_MS)}
      toRemove == Cardinality(young) - (MAX_SESSIONS - 1)
  IN IF Cardinality(young) > MAX_SESSIONS - 1
       THEN {k \in young :
               Cardinality({j \in young : SortedBefore(objs, j, k)}) >= toRemove}
       ELSE young

\* cleanupOldSessions: the keys left in the Map, first without the
\* sessions beyond the maximum age, then without the oldest of the rest
\* when there are more than MAX_SESSIONS
\* cleanupOldSessions evicting the newest sessions of a full Map
cleanupOldSessions_EvictsNewest(keys, objs, t) ==
  LET young == {k \in keys : ~(t - objs[k].sessionCreatedAt > SESSION_MAX_AGE_MS)}
  IN IF Cardinality(young) > MAX_SESSIONS
       THEN {k \in young :
               Cardinality({j \in young : SortedBefore(objs, j, k)}) < MAX_SESSIONS}
       ELSE young

cleanupOldSessions(keys, objs, t) ==
  LET young == {k \in keys : ~(t - objs[k].sessionCreatedAt > SESSION_MAX_AGE_MS)}
      toRemove == Cardinality(young) - MAX_SESSIONS
  IN IF Cardinality(young) > MAX_SESSIONS
       THEN {k \in young :
               Cardinality({j \in young : SortedBefore(objs, j, k)}) >= toRemove}
       ELSE young

(***************************************************************************)
(* Tokens (token.ts)                                                       *)
(***************************************************************************)
generateTokenString(n) == <<"rcap_", n>>

\* createToken: the token data stored under tokenData.token
NewToken(challengeId, clientIp, n, t) ==
  [token |-> generateTokenString(n), challengeId |-> challengeId, issuedAt |-> t,
   expiresAt |-> t + tokenExpiryMs, clientIp |-> clientIp]

validateToken_NoDelete(store, token, t) ==
  IF token = <<>> THEN [result |-> [valid |-> FALSE, error |-> "Token is required"],
                        store |-> store]
  ELSE IF token[1] # "rcap_"
    THEN [result |-> [valid |-> FALSE, error |-> "Invalid token format"], store |-> store]
  ELSE IF token \notin DOMAIN store
    THEN [result |-> [valid |-> FALSE, error |-> "Token not found or already used"],
          store |-> store]
  ELSE IF t > store[token].expiresAt
    THEN [result |-> [valid |-> FALSE, error |-> "Token expired"],
          store |-> Remove(store, token)]
  ELSE [result |-> [valid |-> TRUE, challengeId |-> store[token].challengeId,
                    expiresAt |-> store[token].expiresAt],
        store |-> store]

\* validateToken without the check of expiresAt
validateToken_NoExpiryCheck(store, token, t) ==
  IF token = <<>> THEN [result |-> [valid |-> FALSE, error |-> "Token is required"],
                        store |-> store]
  ELSE IF token[1] # "rcap_"
    THEN [result |-> [valid |-> FALSE, error |-> "Invalid token format"], store |-> store]
  ELSE IF token \notin DOMAIN store
    THEN [result |-> [valid |-> FALSE, error |-> "Token not found or already used"],
          store |-> store]
  ELSE [result |-> [valid |-> TRUE, challengeId |-> store[token].challengeId,
                    expiresAt |-> store[token].expiresAt],
        store |-> Remove(store, token)]

\* validateToken at time t: the response and the store it leaves.  The empty
\* string is <<>>; token.startsWith('rcap_') looks at the first component.
validateToken(store, token, t) ==
  IF token = <<>> THEN [result |-> [valid |-> FALSE, error |-> "Token is required"],
                        store |-> store]
  ELSE IF token[1] # "rcap_"
    THEN [result |-> [valid |-> FALSE, error |-> "Invalid token format"], store |-> store]
  ELSE IF token \notin DOMAIN store
    THEN [result |-> [valid |-> FALSE, error |-> "Token not found or already used"],
          store |-> store]
  ELSE IF t > store[token].expiresAt
    THEN [result |-> [valid |-> FALSE, error |-> "Token expired"],
          store |-> Remove(store, token)]
  ELSE [result |-> [valid |-> TRUE, challengeId |-> store[token].challengeId,
                    expiresAt |-> store[token].expiresAt],
        store |-> Remove(store, token)]

\* MemoryTokenStore.cleanup
cleanupTokens(store, t) == [k \in {x \in DOMAIN store : ~(store[x].expiresAt < t)} |-> store[k]]

(***************************************************************************)
(* Single challenges (challenges/index.ts)                                 *)
(***************************************************************************)
generateId(n, t) == <<"ch_", t, n>>

\* generateChallengeOfType: config.challengeTimeoutMs || 30000
NewChallenge(clientIp, d, n, t) ==
  [id |-> generateId(n, t), type |-> "coherent", createdAt |-> t,
   expiresAt |-> t + (IF challengeTimeoutMs # 0 THEN challengeTimeoutMs ELSE 30000),
   clientIp |-> clientIp, verified |-> FALSE, data |-> generateCoherentChallenge(d)]

(***************************************************************************)
(* Server runs                                                             *)
(***************************************************************************)
MaxRequests == 5
MaxSessions == 2
MaxPending == 2
MaxBlockTimeouts == 3
FloodRequests == 30
MaxBurst == 31
RateHorizon == 18000
WindowStep == 20000
WindowHorizon == 80000
MaxOtherChecks == 1
MaxSweeps == 1

Clients == {"ipA"}

\* an address that starts no session and asks for no challenge
Visitors == {"ipB"}

\* the steps of the clock: a block timeout and a token lifetime, each just
\* exceeded
BlockStep == challengeTimeoutMs + 1

TokenStep == tokenExpiryMs + 1

\* the maximum age of a session, just exceeded
AgeStep == SESSION_MAX_AGE_MS + 1

\* the end of the runs in which sessions grow old: three block timeouts
\* and one maximum age
ExpiryHorizon == MaxBlockTimeouts * BlockStep + AgeStep

\* the random draws behind the challenges of the runs
FlowDraws ==
  {Draw(<<1, 2>>, 1, 1, 1, IdentityShuffle, 0)}

UpperChar(c) ==
  IF \E i \in 1..26 : LowerLetters[i] = c
    THEN UpperLetters[CHOOSE i \in 1..26 : LowerLetters[i] = c]
    ELSE c

RECURSIVE Join(_)
Join(tokens) ==
  IF Len(tokens) = 0 THEN <<>>
  ELSE IF Len(tokens) = 1 THEN tokens[1]
  ELSE tokens[1] \o <<" ">> \o Join(Tail(tokens))

\* a sentence that meets a challenge: its words, the first one capitalised,
\* then filler words up to the target count, closed by a full stop
GoodAnswer(ch) ==
  LET first  == <<UpperChar(ch.words[1][1])>> \o Tail(ch.words[1])
      fill   == [k \in 1..(ch.wordCount - Len(ch.words) - 1) |-> <<"s", "o">>]
      tokens == <<first>> \o Tail(ch.words) \o fill \o << <<"o", "n", ".">> >>
  IN Join(tokens)

OverlongAnswer == Repeat("a", MAX_SENTENCE_LENGTH + 1)

FlowAnswers ==
  {GoodAnswer(generateCoherentChallenge(d)) : d \in FlowDraws}
    \cup {<<"n", "o">>, OverlongAnswer}

\* what the oracle answers in the runs: a passing score, a failing score,
\* no usable answer
FlowReplies ==
  {[kind |-> "content", content |-> <<"8">>], [kind |-> "content", content |-> <<"3">>],
   [kind |-> "fetch_throws", content |-> <<>>]}

NoResponse == [op |-> "none"]

NoFlood == [ip |-> "none", left |-> 0]

\* the result of checkChallengeRateLimit or checkSubmitRateLimit for the
\* request being handled; a handler that calls neither leaves NoAdmission
NoAdmission == [category |-> "none"]

Admission(category, ip, rateCheck, t) ==
  [category |-> category, ip |-> ip, allowed |-> rateCheck.allowed,
   retryAfterMs |-> rateCheck.retryAfterMs, at |-> t]

NoChecks ==
  [last |-> <<>>, burst |-> <<>>, window |-> [key |-> <<>>, start |-> 0, count |-> 0],
   comparing |-> FALSE, shadow |-> [challenge |-> <<>>, submit |-> <<>>],
   subject |-> <<>>, others |-> 0, sweeps |-> 0]

NoRequest == [op |-> "none"]

\* what the handlers read of a request: its route, the caller's address,
\* whether the body parses and names its fields, the session or challenge
\* it names and the length of its answer
Request(op, ip, body) ==
  [op |-> op, ip |-> ip, kind |-> body.kind,
   ref |-> IF body.kind # "ok" THEN <<>>
           ELSE IF "sessionId" \in DOMAIN body THEN body.sessionId
           ELSE IF "challengeId" \in DOMAIN body THEN body.challengeId
           ELSE <<>>,
   answerLength |-> IF "answer" \in DOMAIN body THEN Len(body.answer) ELSE 0]

\* no call of logFailure yet
NoLog == [level |-> "none"]

FlowInit ==
  /\ now = 0
  /\ sessions = {}
  /\ sessionObjs = <<>>
  /\ challengeStore = {}
  /\ challengeObjs = <<>>
  /\ tokenStore = <<>>
  /\ rateChallengeStore = <<>>
  /\ submitStore = <<>>
  /\ pending = <<>>
  /\ response = NoResponse
  /\ fresh = 1
  /\ handled = 0
  /\ flooding = NoFlood
  /\ issued = <<>>
  /\ redemptions = <<>>
  /\ admission = NoAdmission
  /\ limiter = NoChecks
  /\ request = NoRequest
  /\ blockLog = <<>>
  /\ deleted = {}
  /\ wsData = <<>>
  /\ totalConnections = 0
  /\ connectionsPerIp = <<>>
  /\ failureTracker = <<>>
  /\ loggerConfig = [enabled |-> TRUE, level |-> "info"]
  /\ logged = NoLog
  /\ failures = <<>>
  /\ peeks = <<>>

Respond(op, status, outcome) == [op |-> op, status |-> status, outcome |-> outcome]

RespondToken(op, tokenData, valid) ==
  [op |-> op, status |-> 200, outcome |-> "success", token |-> tokenData.token,
   verified |-> valid]

\* the response to an answer that the oracle judged and that got no token
RespondJudged(op, valid) ==
  [op |-> op, status |-> 400, outcome |-> "verification_failed", verified |-> valid]

\* if (verifyResult.valid) / if (result.success): a token is issued
IssuesToken_Always(result) == TRUE

IssuesToken(result) == result.valid

\* createToken, with the record of what created the token: the handler
\* (entry) that called it, the object it holds, the challenge its answer was
\* verified against and the start of the block it was submitted in
Issue(tokenData, valid, entry) ==
  /\ tokenStore' = Put(tokenStore, tokenData.token, tokenData)
  /\ issued' = Put(issued, tokenData.token,
                   [challengeId |-> tokenData.challengeId,
                    expiresAt |-> tokenData.expiresAt, verified |-> valid,
                    op |-> entry.op, ref |-> entry.ref, against |-> entry.against,
                    blockStartedAt |-> entry.blockStartedAt,
                    issuedAt |-> tokenData.issuedAt, clientIp |-> tokenData.clientIp])
  /\ redemptions' = Put(redemptions, tokenData.token, <<>>)

NoIssue == UNCHANGED <<tokenStore, issued, redemptions>>

\* time passes: the clock moves by one of steps, up to limit
Tick(steps, limit) ==
  /\ flooding.left = 0
  /\ \E d \in steps : now + d <= limit /\ now' = now + d
  /\ UNCHANGED <<gen, ver, peeks, wsVars, logVars, deleted, sessions, sessionObjs, challengeStore, challengeObjs,
                 tokenStore, rateChallengeStore, submitStore, pending, response, fresh,
                 handled, flooding, issued, redemptions, admission, limiter, request,
                 blockLog>>

\* POST /auth/start, in a run that starts up to limit sessions
AuthStartUpTo(limit) ==
  /\ flooding.left = 0
  /\ handled < MaxRequests
  /\ Cardinality(DOMAIN sessionObjs) < limit
  /\ handled' = handled + 1
  /\ \E ip \in Clients :
       LET rateCheck == checkRateLimit(rateChallengeStore, ip, RATE_LIMITS.challenge, now)
       IN /\ rateChallengeStore' = rateCheck.store
          /\ admission' = Admission("challenge", ip, rateCheck, now)
          /\ request' = Request("/auth/start", ip, [kind |-> "ok"])
          /\ IF ~rateCheck.allowed
               THEN /\ response' = Respond("/auth/start", 429, "rate_limited")
                    /\ UNCHANGED <<sessions, sessionObjs, fresh, blockLog>>
               ELSE \E d \in FlowDraws :
                      LET session == NewSession(ip, challengeTimeoutMs, d, fresh,
                                                fresh + 1, now)
                      IN /\ sessionObjs' = Put(sessionObjs, session.id, session)
                         /\ sessions' = cleanupOldSessions(sessions \cup {session.id},
                                                           sessionObjs', now)
                         /\ fresh' = fresh + 2
                         /\ blockLog' = Put(blockLog, session.id, <<session.challenge.id>>)
                         /\ response' = Respond("/auth/start", 200, "started")
  /\ UNCHANGED <<gen, ver, peeks, wsVars, logVars, deleted, flooding, now, challengeStore, challengeObjs, tokenStore, submitStore, pending,
                 issued, redemptions, limiter>>

AuthStart == AuthStartUpTo(MaxSessions)

\* the timer of cleanupOldSessions (every 30 s), which may run at any time
CleanupOldSessions ==
  /\ flooding.left = 0
  /\ sessions' = cleanupOldSessions(sessions, sessionObjs, now)
  /\ UNCHANGED <<gen, ver, peeks, wsVars, logVars, now, sessionObjs, challengeStore, challengeObjs, tokenStore,
                 rateChallengeStore, submitStore, pending, response, fresh, handled,
                 flooding, issued, redemptions, admission, limiter, request, blockLog,
                 deleted>>

\* deleteSession, called with the id of a session in the Map (no handler of
\* the server calls it; it is part of what sessions.ts exports)
DeleteSession ==
  /\ flooding.left = 0
  /\ \E id \in sessions :
       /\ sessions' = sessions \ {id}
       /\ deleted' = deleted \cup {id}
  /\ UNCHANGED <<gen, ver, peeks, wsVars, logVars, now, sessionObjs, challengeStore, challengeObjs, tokenStore,
                 rateChallengeStore, submitStore, pending, response, fresh, handled,
                 flooding, issued, redemptions, admission, limiter, request, blockLog>>

\* the bodies of the requests to /auth/submit: not JSON, a field missing,
\* or a session id (one the server gave out, or another) with an answer
AuthSubmitBodies ==
  {[kind |-> "unparsable"], [kind |-> "missing"]}
    \cup {[kind |-> "ok", sessionId |-> id, answer |-> a] :
            id \in DOMAIN sessionObjs \cup {generateSessionId(0)}, a \in FlowAnswers}

\* POST /auth/submit from one of the addresses ips, from the request to the
\* response or to the await of the oracle inside verifyCoherent
AuthSubmitFrom(ips) ==
  /\ flooding.left = 0
  /\ handled < MaxRequests
  /\ handled' = handled + 1
  /\ \E ip \in ips, body \in AuthSubmitBodies :
       LET rateCheck == checkRateLimit(submitStore, ip, RATE_LIMITS.submit, now)
           op == "/auth/submit"
           Rejects(status, outcome) ==
             /\ response' = Respond(op, status, outcome)
             /\ UNCHANGED <<sessionObjs, pending, fresh, blockLog>>
       IN /\ submitStore' = rateCheck.store
          /\ request' = Request(op, ip, body)
          /\ admission' = Admission("submit", ip, rateCheck, now)
          /\ IF ~rateCheck.allowed THEN Rejects(429, "rate_limited")
             ELSE IF body.kind = "unparsable" THEN Rejects(400, "invalid_body")
             ELSE IF body.kind = "missing" THEN Rejects(400, "missing_field")
             ELSE IF Len(body.answer) > MAX_SENTENCE_LENGTH
               THEN Rejects(400, "answer_too_long")
             ELSE IF body.sessionId \notin sessions THEN Rejects(404, "session_not_found")
             ELSE LET session == sessionObjs[body.sessionId]
                  IN IF session.status # "active" THEN Rejects(400, "session_not_active")
                     ELSE IF isBlockExpired(session, now)
                       THEN \E d \in FlowDraws :
                              /\ sessionObjs' =
                                   [sessionObjs EXCEPT ![session.id] =
                                      advanceToNextBlock(session, d, fresh, now)]
                              /\ fresh' = IF CanAdvance(session) THEN fresh + 1 ELSE fresh
                              /\ blockLog' =
                                   IF CanAdvance(session)
                                     THEN [blockLog EXCEPT ![session.id] =
                                             Append(@, sessionObjs'[session.id].challenge.id)]
                                     ELSE blockLog
                              /\ response' =
                                   IF CanAdvance(session)
                                     THEN Respond(op, 200, "block_expired")
                                     ELSE Respond(op, 401, "blocks_exhausted")
                              /\ UNCHANGED pending
                     ELSE LET local == VerifyLocal(session.challenge, body.answer)
                          IN IF NeedsCoherence(local)
                               THEN /\ Len(pending) < MaxPending
                                    /\ pending' = Append(pending,
                                         [op |-> op, ip |-> ip, ref |-> session.id,
                                          against |-> session.challenge.id,
                                          blockStartedAt |-> session.blockStartedAt])
                                    /\ UNCHANGED <<sessionObjs, fresh, response, blockLog>>
                               ELSE Rejects(400, "verification_failed")
  /\ UNCHANGED <<gen, ver, peeks, wsVars, logVars, deleted, flooding, now, sessions, challengeStore, challengeObjs, tokenStore,
                 rateChallengeStore, issued, redemptions, limiter>>

AuthSubmit == AuthSubmitFrom(Clients)

PendingWithout(i) == SubSeq(pending, 1, i - 1) \o SubSeq(pending, i + 1, Len(pending))

\* POST /auth/submit, from the answer of the oracle to the response.  The
\* handler still holds the session object it read before the await; the
\* token is bound to the challenge that object has now.
AuthSubmitResume ==
  /\ flooding.left = 0
  /\ \E i \in 1..Len(pending), r \in FlowReplies :
       LET session == sessionObjs[pending[i].ref]
           verifyResult == VerifyJudged(checkCoherence(TRUE, r))
           tokenData == NewToken(session.challenge.id, pending[i].ip, fresh, now)
       IN /\ pending[i].op = "/auth/submit"
          /\ pending' = PendingWithout(i)
          /\ IF verifyResult.raised
               THEN /\ response' = Respond(pending[i].op, 400, "invalid_body")
                    /\ NoIssue
                    /\ UNCHANGED <<sessionObjs, fresh>>
             ELSE IF IssuesToken(verifyResult)
               THEN /\ sessionObjs' = [sessionObjs EXCEPT
                                         ![session.id] = markSessionPassed(session, now)]
                    /\ Issue(tokenData, verifyResult.valid, pending[i])
                    /\ fresh' = fresh + 1
                    /\ response' = RespondToken(pending[i].op, tokenData,
                                                verifyResult.valid)
             ELSE /\ response' = RespondJudged(pending[i].op, verifyResult.valid)
                  /\ NoIssue
                  /\ UNCHANGED <<sessionObjs, fresh>>
  /\ UNCHANGED <<gen, ver, peeks, wsVars, logVars, deleted, flooding, now, sessions, challengeStore, challengeObjs, rateChallengeStore,
                 submitStore, handled, admission, limiter, request, blockLog>>

\* A burst of FloodRequests requests to /auth/submit whose body is not
\* JSON, handled back to back: AuthSubmitFlood takes the first and
\* FloodStep each of the others, and nothing else runs until the last.
\* Each takes a token of the bucket if there is one and is answered 400,
\* or 429 when there is none.
Unparsable(ip) ==
  LET rateCheck == checkRateLimit(submitStore, ip, RATE_LIMITS.submit, now)
  IN /\ submitStore' = rateCheck.store
     /\ admission' = Admission("submit", ip, rateCheck, now)
     /\ request' = Request("/auth/submit", ip, [kind |-> "unparsable"])
     /\ response' = IF rateCheck.allowed
                      THEN Respond("/auth/submit", 400, "invalid_body")
                      ELSE Respond("/auth/submit", 429, "rate_limited")
     /\ UNCHANGED <<gen, ver, peeks, wsVars, logVars, deleted, now, sessions, sessionObjs, challengeStore, challengeObjs,
                    tokenStore, rateChallengeStore, pending, fresh, issued, redemptions,
                    limiter, blockLog>>

AuthSubmitFlood ==
  /\ flooding.left = 0
  /\ handled < MaxRequests
  /\ handled' = handled + 1
  /\ \E ip \in Clients :
       /\ flooding' = [ip |-> ip, left |-> FloodRequests - 1]
       /\ Unparsable(ip)

FloodStep ==
  /\ flooding.left > 0
  /\ flooding' = IF flooding.left = 1 THEN NoFlood ELSE [flooding EXCEPT !.left = @ - 1]
  /\ Unparsable(flooding.ip)
  /\ UNCHANGED handled

\* GET or POST /challenge
Challenge ==
  /\ flooding.left = 0
  /\ handled < MaxRequests
  /\ handled' = handled + 1
  /\ \E ip \in Clients :
       LET rateCheck == checkRateLimit(rateChallengeStore, ip, RATE_LIMITS.challenge, now)
       IN /\ rateChallengeStore' = rateCheck.store
          /\ admission' = Admission("challenge", ip, rateCheck, now)
          /\ request' = Request("/challenge", ip, [kind |-> "ok"])
          /\ IF ~rateCheck.allowed
               THEN /\ response' = Respond("/challenge", 429, "rate_limited")
                    /\ UNCHANGED <<challengeStore, challengeObjs, fresh>>
               ELSE \E d \in FlowDraws :
                      LET challenge == NewChallenge(ip, d, fresh, now)
                      IN /\ challengeObjs' = Put(challengeObjs, challenge.id, challenge)
                         /\ challengeStore' = challengeStore \cup {challenge.id}
                         /\ fresh' = fresh + 1
                         /\ response' = Respond("/challenge", 200, "challenge")
  /\ UNCHANGED <<gen, ver, peeks, wsVars, logVars, deleted, flooding, now, sessions, sessionObjs, tokenStore, submitStore, pending, issued,
                 redemptions, limiter, blockLog>>

\* a challenge that never counts as expired
ChallengeExpired_Never(challenge, t) == FALSE

\* the expiry test of getChallenge and of verifyAnswer
ChallengeExpired(challenge, t) == t > challenge.expiresAt

\* the bodies sent to POST /submit and, as verify messages, over a WebSocket
\* (answers beyond the length limit are left to the verification runs)
SubmitBodies ==
  {[kind |-> "unparsable"], [kind |-> "missing"]}
    \cup {[kind |-> "ok", challengeId |-> id, answer |-> a] :
            id \in DOMAIN challengeObjs \cup {generateId(0, 0)},
            a \in FlowAnswers \ {OverlongAnswer}}

\* POST /submit (op "/submit") and the verify message of a WebSocket (op
\* "ws"), from the request to the response or to the await of the oracle
\* inside verifyCoherent.  getChallenge and verifyAnswer both look the
\* challenge up; nothing runs between the two.  A verify message without
\* challengeId finds no challenge.
Submit ==
  /\ flooding.left = 0
  /\ handled < MaxRequests
  /\ handled' = handled + 1
  /\ \E ip \in Clients, op \in {"/submit", "ws"}, body \in SubmitBodies :
       LET Rejects(status, outcome) ==
             /\ response' = Respond(op, status, outcome)
             /\ UNCHANGED <<challengeStore, pending>>
       IN /\ request' = Request(op, ip, body)
          /\ IF body.kind = "unparsable" THEN Rejects(400, "invalid_body")
             ELSE IF body.kind = "missing"
               THEN IF op = "/submit" THEN Rejects(400, "missing_field")
                    ELSE Rejects(404, "challenge_not_found")
             ELSE IF body.challengeId \notin challengeStore
               THEN Rejects(404, "challenge_not_found")
             ELSE LET challenge == challengeObjs[body.challengeId]
                  IN IF ChallengeExpired(challenge, now)
                       THEN /\ challengeStore' = challengeStore \ {challenge.id}
                            /\ response' = Respond(op, 404, "challenge_not_found")
                            /\ UNCHANGED pending
                     ELSE IF challenge.verified THEN Rejects(400, "already_verified")
                     ELSE LET local == VerifyLocal(challenge.data, body.answer)
                          IN IF NeedsCoherence(local)
                               THEN /\ Len(pending) < MaxPending
                                    /\ pending' = Append(pending,
                                         [op |-> op, ip |-> ip, ref |-> challenge.id,
                                          against |-> challenge.id,
                                          blockStartedAt |-> challenge.createdAt])
                                    /\ UNCHANGED <<challengeStore, response>>
                               ELSE Rejects(400, "verification_failed")
  /\ admission' = NoAdmission
  /\ UNCHANGED <<gen, ver, peeks, wsVars, logVars, deleted, flooding, now, sessions, sessionObjs, challengeObjs, tokenStore,
                 rateChallengeStore, submitStore, fresh, issued, redemptions, limiter,
                 blockLog>>

\* POST /submit and the WebSocket verify, from the answer of the oracle on:
\* verifyAnswer marks the challenge object it holds, the handler issues the
\* token and consumes the challenge
SubmitResume ==
  /\ flooding.left = 0
  /\ \E i \in 1..Len(pending), r \in FlowReplies :
       LET challenge == challengeObjs[pending[i].ref]
           result == VerifyJudged(checkCoherence(TRUE, r))
           tokenData == NewToken(challenge.id, pending[i].ip, fresh, now)
       IN /\ pending[i].op \in {"/submit", "ws"}
          /\ pending' = PendingWithout(i)
          /\ IF result.raised
               THEN /\ response' = Respond(pending[i].op, 400, "invalid_body")
                    /\ NoIssue
                    /\ UNCHANGED <<challengeStore, challengeObjs, fresh>>
             ELSE IF IssuesToken(result)
               THEN /\ challengeObjs' = [challengeObjs EXCEPT ![challenge.id].verified = TRUE]
                    /\ challengeStore' = challengeStore \ {challenge.id}
                    /\ Issue(tokenData, result.valid, pending[i])
                    /\ fresh' = fresh + 1
                    /\ response' = RespondToken(pending[i].op, tokenData, result.valid)
             ELSE /\ response' = RespondJudged(pending[i].op, result.valid)
                  /\ NoIssue
                  /\ UNCHANGED <<challengeStore, challengeObjs, fresh>>
  /\ UNCHANGED <<gen, ver, peeks, wsVars, logVars, deleted, flooding, now, sessions, sessionObjs, rateChallengeStore, submitStore, handled,
                 admission, limiter, request, blockLog>>

(***************************************************************************)
(* The failure log (logger.ts)                                             *)
(***************************************************************************)
FAILURE_WINDOW_MS == 5 * 60 * 1000

REPEAT_OFFENDER_THRESHOLD == 5

LOG_LEVEL_PRIORITY == [debug |-> 0, info |-> 1, warn |-> 2, error |-> 3]

shouldLog(config, level) ==
  IF ~config.enabled THEN FALSE
  ELSE LOG_LEVEL_PRIORITY[level] >= LOG_LEVEL_PRIORITY[config.level]

\* trackFailure that never drops the failures that left the window
trackFailure_KeepsOld(tracker, ip, t) ==
  LET failuresOfIp == Append(IF ip \in DOMAIN tracker THEN tracker[ip] ELSE <<>>, t)
  IN [tracker |-> Put(tracker, ip, failuresOfIp),
      failureCount |-> Len(failuresOfIp),
      isRepeatOffender |-> Len(failuresOfIp) >= REPEAT_OFFENDER_THRESHOLD]

\* trackFailure(ip) at time t: the Map it leaves and what it returns
trackFailure(tracker, ip, t) ==
  LET InWindow(ts) == t - ts < FAILURE_WINDOW_MS
      recent == SelectSeq(IF ip \in DOMAIN tracker THEN tracker[ip] ELSE <<>>, InWindow)
      failuresOfIp == Append(recent, t)
  IN [tracker |-> Put(tracker, ip, failuresOfIp),
      failureCount |-> Len(failuresOfIp),
      isRepeatOffender |-> Len(failuresOfIp) >= REPEAT_OFFENDER_THRESHOLD]

\* the call logFailure(event, {ip}) inside a handler: the failure is
\* tracked, and the entry is written when the configuration lets its level
\* through
logFailure(event, ip) ==
  LET tracked == trackFailure(failureTracker, ip, now)
      level == IF tracked.isRepeatOffender THEN "error" ELSE "warn"
  IN /\ failureTracker' = tracked.tracker
     /\ logged' = [level |-> level, event |-> event, ip |-> ip,
                   failureCount |-> tracked.failureCount,
                   isRepeatOffender |-> tracked.isRepeatOffender,
                   output |-> shouldLog(loggerConfig, level)]
     /\ failures' = Append(failures, [ip |-> ip, at |-> now])
     /\ UNCHANGED loggerConfig

cleanupFailureTracker(tracker, t) ==
  LET InWindow(ts) == t - ts < FAILURE_WINDOW_MS
      kept == {ip \in DOMAIN tracker : SelectSeq(tracker[ip], InWindow) # <<>>}
  IN [ip \in kept |-> SelectSeq(tracker[ip], InWindow)]

(***************************************************************************)
(* The WebSocket connections (server.ts)                                   *)
(***************************************************************************)
\* the limits of the server, 1000 and 10, scaled down
MAX_TOTAL_CONNECTIONS == 3

MAX_CONNECTIONS_PER_IP == 2

\* connectionsPerIp.get(ip) || 0
ConnectionsOf(ip) == IF ip \in DOMAIN connectionsPerIp THEN connectionsPerIp[ip] ELSE 0

\* the close handler that leaves the counters as they are
WsClose_KeepsCounters ==
  /\ flooding.left = 0
  /\ \E c \in DOMAIN wsData :
       /\ wsData[c].open
       /\ wsData' = [wsData EXCEPT ![c].open = FALSE]
  /\ UNCHANGED <<gen, ver, peeks, logVars, totalConnections, connectionsPerIp, deleted, now,
                 sessions, sessionObjs, challengeStore, challengeObjs, tokenStore,
                 rateChallengeStore, submitStore, pending, response, fresh, handled,
                 flooding, issued, redemptions, admission, limiter, request, blockLog>>

\* A request to / or /ws.  Below the two limits server.upgrade is called,
\* which runs the open handler before it returns: the counters are raised,
\* the challenge of the connection is generated and sent.  A request that
\* is not an upgrade request gets 400.
WsUpgrade ==
  /\ flooding.left = 0
  /\ handled < MaxRequests
  /\ handled' = handled + 1
  /\ \E ip \in Clients \cup Visitors, upgraded \in BOOLEAN :
       LET op == "/ws"
           ipConnections == ConnectionsOf(ip)
           Rejects(status, outcome) ==
             /\ response' = Respond(op, status, outcome)
             /\ UNCHANGED <<wsVars, challengeStore, challengeObjs, fresh>>
       IN /\ request' = Request(op, ip, [kind |-> IF upgraded THEN "ok" ELSE "missing"])
          /\ IF totalConnections >= MAX_TOTAL_CONNECTIONS
               THEN Rejects(503, "at_capacity") /\ UNCHANGED logVars
             ELSE IF ipConnections >= MAX_CONNECTIONS_PER_IP
               THEN Rejects(429, "rate_limited") /\ logFailure("rate_limit_exceeded", ip)
             ELSE IF ~upgraded THEN Rejects(400, "upgrade_failed") /\ UNCHANGED logVars
             ELSE \E d \in FlowDraws :
                    LET challenge == NewChallenge(ip, d, fresh, now)
                        c == Cardinality(DOMAIN wsData) + 1
                    IN /\ totalConnections' = totalConnections + 1
                       /\ connectionsPerIp' = Put(connectionsPerIp, ip, ipConnections + 1)
                       /\ challengeObjs' = Put(challengeObjs, challenge.id, challenge)
                       /\ challengeStore' = challengeStore \cup {challenge.id}
                       /\ fresh' = fresh + 1
                       /\ wsData' = Put(wsData, c,
                                        [clientIp |-> ip, connectedAt |-> now,
                                         challengeId |-> challenge.id, open |-> TRUE])
                       /\ response' = Respond(op, 101, "challenge")
                       /\ UNCHANGED logVars
  /\ admission' = NoAdmission
  /\ UNCHANGED <<gen, ver, peeks, deleted, flooding, now, sessions, sessionObjs, tokenStore,
                 rateChallengeStore, submitStore, pending, issued, redemptions, limiter,
                 blockLog>>

\* The close handler, whoever closed: the client, the timeout of the
\* challenge or the close that follows a success.
WsClose ==
  /\ flooding.left = 0
  /\ \E c \in DOMAIN wsData :
       LET ip == wsData[c].clientIp
           current == ConnectionsOf(ip)
       IN /\ wsData[c].open
          /\ wsData' = [wsData EXCEPT ![c].open = FALSE]
          /\ totalConnections' = Max(0, totalConnections - 1)
          /\ connectionsPerIp' = IF current <= 1 THEN Remove(connectionsPerIp, ip)
                                 ELSE Put(connectionsPerIp, ip, current - 1)
  /\ UNCHANGED <<gen, ver, peeks, logVars, deleted, now, sessions, sessionObjs, challengeStore,
                 challengeObjs, tokenStore, rateChallengeStore, submitStore, pending,
                 response, fresh, handled, flooding, issued, redemptions, admission,
                 limiter, request, blockLog>>

\* the messages a client sends over its WebSocket: text that is not JSON, a
\* message of another type, and verify messages without a challengeId or
\* naming a challenge (any challenge the server ever made, or none of them)
WsMessages ==
  {[kind |-> "unparsable"], [kind |-> "other"], [kind |-> "missing"]}
    \cup {[kind |-> "ok", challengeId |-> id, answer |-> a] :
            id \in DOMAIN challengeObjs \cup {generateId(0, 0)},
            a \in FlowAnswers \ {OverlongAnswer}}

\* The message handler of the open connection c, from the message to the
\* reply or to the await of the oracle inside verifyAnswer; SubmitResume
\* takes it from there.  The handler looks up the challenge the message
\* names.
WsMessage ==
  /\ flooding.left = 0
  /\ handled < MaxRequests
  /\ handled' = handled + 1
  /\ \E c \in DOMAIN wsData, body \in WsMessages :
       LET op == "ws"
           ip == wsData[c].clientIp
           Replies(status, outcome) ==
             /\ response' = Respond(op, status, outcome)
             /\ UNCHANGED <<challengeStore, pending>>
       IN /\ wsData[c].open
          /\ request' = Request(op, ip, body)
          /\ IF body.kind = "unparsable" THEN Replies(400, "invalid_body") /\ UNCHANGED logVars
             ELSE IF body.kind = "other"
               THEN Replies(400, "unknown_type") /\ UNCHANGED logVars
             ELSE IF body.kind = "missing" \/ body.challengeId \notin challengeStore
               THEN /\ Replies(404, "challenge_not_found")
                    /\ logFailure("challenge_not_found", ip)
             ELSE LET challenge == challengeObjs[body.challengeId]
                  IN IF ChallengeExpired(challenge, now)
                       THEN /\ challengeStore' = challengeStore \ {challenge.id}
                            /\ response' = Respond(op, 404, "challenge_not_found")
                            /\ logFailure("challenge_not_found", ip)
                            /\ UNCHANGED pending
                     ELSE IF challenge.verified
                       THEN Replies(400, "already_verified") /\ UNCHANGED logVars
                     ELSE LET local == VerifyLocal(challenge.data, body.answer)
                          IN IF NeedsCoherence(local)
                               THEN /\ Len(pending) < MaxPending
                                    /\ pending' = Append(pending,
                                         [op |-> op, ip |-> ip, ref |-> challenge.id,
                                          against |-> challenge.id,
                                          blockStartedAt |-> challenge.createdAt,
                                          conn |-> c])
                                    /\ UNCHANGED <<challengeStore, response, logVars>>
                               ELSE /\ Replies(400, "verification_failed")
                                    /\ UNCHANGED logVars
  /\ admission' = NoAdmission
  /\ UNCHANGED <<gen, ver, peeks, wsVars, deleted, flooding, now, sessions, sessionObjs,
                 challengeObjs, tokenStore, rateChallengeStore, submitStore, fresh,
                 issued, redemptions, limiter, blockLog>>

\* the token strings sent to /validate: none, one without the prefix, one
\* never issued, and the ones issued
ValidateTokens ==
  {<<>>, <<"tok_", 0>>, generateTokenString(0)} \cup DOMAIN issued

MaxRedemptions == 3

\* POST /validate.  redemptions keeps, for every token issued, the answers to
\* the calls made for it up to its expiry time.
Validate ==
  /\ flooding.left = 0
  /\ handled < MaxRequests
  /\ handled' = handled + 1
  /\ \E token \in ValidateTokens :
       LET v == validateToken(tokenStore, token, now)
       IN /\ token \in DOMAIN issued => Len(redemptions[token]) < MaxRedemptions
          /\ request' = [op |-> "/validate", token |-> token]
          /\ tokenStore' = v.store
          /\ response' = [op |-> "/validate", status |-> IF v.result.valid THEN 200 ELSE 400,
                          outcome |-> v.result]
          /\ redemptions' =
               IF token \in DOMAIN issued /\ now <= issued[token].expiresAt
                 THEN [redemptions EXCEPT ![token] = Append(@, v.result)]
                 ELSE redemptions
  /\ admission' = NoAdmission
  /\ UNCHANGED <<gen, ver, peeks, wsVars, logVars, deleted, flooding, now, sessions, sessionObjs, challengeStore, challengeObjs,
                 rateChallengeStore, submitStore, pending, fresh, issued, limiter, blockLog>>

\* the timer of cleanupTokens (every 10 s), which may run at any time
CleanupTokens ==
  /\ flooding.left = 0
  /\ tokenStore' = cleanupTokens(tokenStore, now)
  /\ UNCHANGED <<gen, ver, peeks, wsVars, logVars, deleted, now, sessions, sessionObjs, challengeStore, challengeObjs,
                 rateChallengeStore, submitStore, pending, response, fresh, handled,
                 flooding, issued, redemptions, admission, limiter, request, blockLog>>

(***************************************************************************)
(* Rate limiter runs.  checkChallengeRateLimit and checkSubmitRateLimit    *)
(* are called for the addresses of RateClients while the clock advances    *)
(* and the timer of cleanupRateLimitStores fires at any point.  limiter    *)
(* keeps what an observer of these calls has seen, for each bucket (a      *)
(* category and an address):                                               *)
(*   last    the result of the last call, and next to it (unswept) the     *)
(*           result the same call gives on the stores of shadow;           *)
(*   burst   the results of the calls made back to back since the call     *)
(*           that created the bucket: no time has passed and no sweep has  *)
(*           run between them;                                             *)
(*   window  one window of WINDOW_MS that the observer opened at an        *)
(*           admitted call, and the number of calls admitted in it;        *)
(*   shadow  once the observer compares: the two stores as they would be   *)
(*           had no sweep run since.                                       *)
(* A run follows one bucket, its subject, which is the bucket of its first *)
(* call; it makes up to MaxOtherChecks calls for other buckets and up to   *)
(* MaxSweeps sweeps.                                                       *)
(***************************************************************************)
RateClients == {"ipA", "ipB"}

Categories == {"challenge", "submit"}

\* "per minute": the window of the published limits
WINDOW_MS == 60 * 1000

\* the clock steps of the rate limiter runs: the time one submit token and
\* one challenge token take to refill, up to RateHorizon, and one idle
\* period just beyond the staleness threshold of the sweep
SubmitTokenMs == TOKEN_UNIT \div RATE_LIMITS.submit.refillRate

ChallengeTokenMs == TOKEN_UNIT \div RATE_LIMITS.challenge.refillRate

staleThreshold == 5 * 60 * 1000

StaleStep == staleThreshold + 1

Store(category) == IF category = "challenge" THEN rateChallengeStore ELSE submitStore

\* what the observer keeps after a call for (category, ip) that answered
\* rateCheck
Observed(category, ip, rateCheck) ==
  LET key == <<category, ip>>
      unswept == IF limiter.comparing
                   THEN checkRateLimit(limiter.shadow[category], ip,
                                       RATE_LIMITS[category], now)
                   ELSE [rateCheck EXCEPT !.store = <<>>]
      result == [unswept |-> unswept.allowed] @@ Admission(category, ip, rateCheck, now)
  IN [subject |-> IF limiter.subject = <<>> THEN key ELSE limiter.subject,
      others |-> IF limiter.subject \in {<<>>, key} THEN limiter.others
                 ELSE limiter.others + 1,
      sweeps |-> limiter.sweeps,
      comparing |-> limiter.comparing,
      last   |-> Put(limiter.last, key, result),
      burst  |-> IF ip \notin DOMAIN Store(category)
                   THEN Put(limiter.burst, key, <<result>>)
                 ELSE IF key \in DOMAIN limiter.burst /\ limiter.burst[key][1].at = now
                   THEN IF Len(limiter.burst[key]) < MaxBurst
                          THEN [limiter.burst EXCEPT ![key] = Append(@, result)]
                          ELSE limiter.burst
                 ELSE Remove(limiter.burst, key),
      window |-> IF ~rateCheck.allowed THEN limiter.window
                 ELSE IF limiter.window.key = key /\ now - limiter.window.start <= WINDOW_MS
                   THEN [limiter.window EXCEPT !.count = @ + 1]
                 ELSE limiter.window,
      shadow |-> [limiter.shadow EXCEPT ![category] = unswept.store]]

Followed(category, ip) ==
  \/ limiter.subject \in {<<>>, <<category, ip>>}
  \/ limiter.others < MaxOtherChecks

\* checkChallengeRateLimit(ip)
checkChallengeRateLimit ==
  /\ \E ip \in RateClients :
       LET rateCheck == checkRateLimit(rateChallengeStore, ip, RATE_LIMITS.challenge, now)
       IN /\ Followed("challenge", ip)
          /\ rateChallengeStore' = rateCheck.store
          /\ admission' = Admission("challenge", ip, rateCheck, now)
          /\ limiter' = Observed("challenge", ip, rateCheck)
  /\ UNCHANGED <<gen, ver, peeks, wsVars, logVars, deleted, now, sessions, sessionObjs, challengeStore, challengeObjs,
                 tokenStore, submitStore, pending, response, fresh, handled, flooding,
                 issued, redemptions, request, blockLog>>

\* checkSubmitRateLimit(ip)
checkSubmitRateLimit ==
  /\ \E ip \in RateClients :
       LET rateCheck == checkRateLimit(submitStore, ip, RATE_LIMITS.submit, now)
       IN /\ Followed("submit", ip)
          /\ submitStore' = rateCheck.store
          /\ admission' = Admission("submit", ip, rateCheck, now)
          /\ limiter' = Observed("submit", ip, rateCheck)
  /\ UNCHANGED <<gen, ver, peeks, wsVars, logVars, deleted, now, sessions, sessionObjs, challengeStore, challengeObjs,
                 tokenStore, rateChallengeStore, pending, response, fresh, handled,
                 flooding, issued, redemptions, request, blockLog>>

\* the observer opens its window on the subject of the run, once in a run;
\* from then on the run makes no calls for other buckets
OpenWindow ==
  /\ limiter.window.key = <<>>
  /\ limiter.others = 0
  /\ \E category \in Categories, ip \in RateClients :
       /\ limiter.subject \in {<<>>, <<category, ip>>}
       /\ limiter' = [limiter EXCEPT
                        !.window = [key |-> <<category, ip>>, start |-> now, count |-> 0],
                        !.subject = IF @ = <<>> THEN <<category, ip>> ELSE @,
                        !.others = MaxOtherChecks]
  /\ UNCHANGED <<gen, ver, peeks, wsVars, logVars, deleted, now, sessions, sessionObjs, challengeStore, challengeObjs,
                 tokenStore, rateChallengeStore, submitStore, pending, response, fresh,
                 handled, flooding, issued, redemptions, admission, request, blockLog>>

\* the observer starts to compare the run with the run that has the same
\* calls at the same times and no sweep, once in a run
Compare ==
  /\ ~limiter.comparing
  /\ limiter' = [limiter EXCEPT !.comparing = TRUE,
                                !.shadow = [challenge |-> rateChallengeStore,
                                            submit |-> submitStore]]
  /\ UNCHANGED <<gen, ver, peeks, wsVars, logVars, deleted, now, sessions, sessionObjs, challengeStore, challengeObjs,
                 tokenStore, rateChallengeStore, submitStore, pending, response, fresh,
                 handled, flooding, issued, redemptions, admission, request, blockLog>>

\* the loop body of cleanupRateLimitStores for one store: every bucket is
\* refilled with RATE_LIMITS.challenge, whichever store it is in, and is
\* deleted when it is full and its lastRefill, which the refill has just
\* set, is older than staleThreshold
cleanupRateLimitStore(store, t) ==
  LET refilled == [ip \in DOMAIN store |-> refillBucket(store[ip], RATE_LIMITS.challenge, t)]
      stale(ip) == /\ refilled[ip].tokens >= RATE_LIMITS.challenge.maxTokens
                   /\ t - refilled[ip].lastRefill > staleThreshold
  IN [ip \in {x \in DOMAIN store : ~stale(x)} |-> refilled[ip]]

\* the timer of cleanupRateLimitStores (every 30 s), which may run at any time
cleanupRateLimitStores ==
  /\ limiter.sweeps < MaxSweeps
  /\ rateChallengeStore' = cleanupRateLimitStore(rateChallengeStore, now)
  /\ submitStore' = cleanupRateLimitStore(submitStore, now)
  /\ limiter' = [limiter EXCEPT !.burst = <<>>, !.sweeps = @ + 1]
  /\ UNCHANGED <<gen, ver, peeks, wsVars, logVars, deleted, now, sessions, sessionObjs, challengeStore, challengeObjs,
                 tokenStore, pending, response, fresh, handled, flooding, issued,
                 redemptions, admission, request, blockLog>>

Init == GenInit /\ VerInit /\ FlowInit

\* Runs of the session flow: sessions are started and answered while up to
\* MaxBlockTimeouts block timeouts pass.
SessionNext ==
  \/ Tick({BlockStep}, MaxBlockTimeouts * BlockStep)
  \/ AuthStart
  \/ AuthSubmit
  \/ AuthSubmitResume

SessionSpec == Init /\ [][SessionNext]_vars

\* Runs of the session flow in which the answers to a session come from the
\* address that started it and from another one.
BindNext ==
  \/ AuthStart
  \/ AuthSubmitFrom(Clients \cup Visitors)
  \/ AuthSubmitResume

BindSpec == Init /\ [][BindNext]_vars

\* Runs of the session flow with the sweep of the sessions: sessions are
\* started, answered, timed out and left to grow old; the clock keeps
\* moving and the timer of the sweep keeps firing.
ExpiryNext ==
  \/ Tick({BlockStep}, MaxBlockTimeouts * BlockStep)
  \/ Tick({AgeStep}, ExpiryHorizon)
  \/ AuthStart
  \/ AuthSubmit
  \/ AuthSubmitResume
  \/ CleanupOldSessions

ExpirySpec ==
  /\ Init
  /\ [][ExpiryNext]_vars
  /\ WF_vars(Tick({AgeStep}, ExpiryHorizon))
  /\ WF_vars(CleanupOldSessions)

\* Runs of the Map of sessions: more sessions are started than the Map
\* holds, sessions are deleted, and the sweep runs at any time.
StoreNext ==
  \/ Tick({BlockStep}, MaxBlockTimeouts * BlockStep)
  \/ Tick({AgeStep}, MaxBlockTimeouts * BlockStep + AgeStep)
  \/ AuthStartUpTo(MAX_SESSIONS + 1)
  \/ CleanupOldSessions
  \/ DeleteSession

StoreSpec == Init /\ [][StoreNext]_vars

\* Runs of the submissions: every way to submit an answer, in time and after
\* a block timeout, within the rate limit and beyond it.
IssueNext ==
  \/ Tick({BlockStep}, BlockStep)
  \/ AuthStart
  \/ AuthSubmit
  \/ AuthSubmitResume
  \/ AuthSubmitFlood
  \/ FloodStep
  \/ Challenge
  \/ Submit
  \/ SubmitResume

IssueSpec == Init /\ [][IssueNext]_vars

\* Runs of the tokens: tokens are issued through the session flow and
\* redeemed, swept or left to expire.
TokenNext ==
  \/ Tick({tokenExpiryMs, TokenStep}, 2 * TokenStep - 1)
  \/ AuthStart
  \/ AuthSubmit
  \/ AuthSubmitResume
  \/ Validate
  \/ CleanupTokens

TokenSpec == Init /\ [][TokenNext]_vars

\* Runs of the rate limiter: admission checks in both categories, refill
\* time in between, a long idle period, and the sweep at any point.
RateNext ==
  \/ Tick({SubmitTokenMs}, SubmitTokenMs)
  \/ Tick({ChallengeTokenMs}, RateHorizon + SubmitTokenMs)
  \/ Tick({StaleStep}, StaleStep)
  \/ checkChallengeRateLimit
  \/ checkSubmitRateLimit
  \/ cleanupRateLimitStores

RateSpec == Init /\ [][RateNext]_vars

\* Runs of the rate limiter next to the same runs without the sweep.
SweepNext ==
  \/ Tick({SubmitTokenMs}, SubmitTokenMs)
  \/ Tick({ChallengeTokenMs}, RateHorizon + SubmitTokenMs)
  \/ Compare
  \/ checkChallengeRateLimit
  \/ checkSubmitRateLimit
  \/ cleanupRateLimitStores

SweepSpec == Init /\ [][SweepNext]_vars

\* Runs of the rate limiter over a window of one minute that the observer
\* opens at some point.
WindowNext ==
  \/ Tick({WindowStep}, WindowHorizon)
  \/ OpenWindow
  \/ checkChallengeRateLimit
  \/ checkSubmitRateLimit
  \/ cleanupRateLimitStores

WindowSpec == Init /\ [][WindowNext]_vars

GenNext == GenerateChallenge \/ GenerateAgain

GenSpec == Init /\ [][GenNext]_vars

VerifyNext == VerifyCall \/ OracleReply \/ VerifyReturn

VerifySpec == Init /\ [][VerifyNext]_vars

(***************************************************************************)
(* Properties of the rate limiter                                          *)
(***************************************************************************)
\* the capacities and rates as published: 10 and 30 requests, per minute
PublishedCapacity(category) == IF category = "challenge" THEN 10 ELSE 30

\* the tokens, in units of 1/6000 token, that a call at time t finds in the
\* bucket of ip after the lazy refill (N tokens a minute are N/10 units a
\* millisecond): a full bucket when there is none
TokensAt(store, category, ip, t) ==
  IF ip \notin DOMAIN store THEN PublishedCapacity(category) * 6000
  ELSE LET grown == store[ip].tokens
                      + (t - store[ip].lastRefill) * (PublishedCapacity(category) \div 10)
       IN IF grown > PublishedCapacity(category) * 6000
            THEN PublishedCapacity(category) * 6000 ELSE grown

\* a step of the runs that is one admission check: the clock stands, no
\* sweep runs, and the observer neither opens its window nor starts comparing
IsCheck ==
  /\ now' = now
  /\ limiter'.sweeps = limiter.sweeps
  /\ limiter'.window.key = limiter.window.key
  /\ limiter'.comparing = limiter.comparing

IsSweep == limiter'.sweeps # limiter.sweeps

\* C11: for a fresh identity and a category of capacity N (10 for challenge
\* issuance, 30 for answer submission), N+1 back-to-back admission checks
\* with no refill time between them give exactly N allowed results followed
\* by one denied result whose retryAfterMs is strictly positive.
\* (Checked under RateSpec.)
C11_FreshBurstAdmitsCapacity ==
  \A key \in DOMAIN limiter.burst :
    LET results == limiter.burst[key]
        N == PublishedCapacity(key[1])
    IN \A i \in 1..Len(results) :
         /\ i <= N => results[i].allowed
         /\ i = N + 1 => ~results[i].allowed /\ results[i].retryAfterMs > 0

\* C11 witness: a fresh submit bucket has answered 31 calls back to back
C11_SubmitBurstDenied ==
  \E key \in DOMAIN limiter.burst :
    /\ key[1] = "submit"
    /\ Len(limiter.burst[key]) = 31
    /\ ~limiter.burst[key][31].allowed

C13_TokensWithinCapacity ==
  /\ [](\A category \in Categories : \A ip \in DOMAIN Store(category) :
          /\ Store(category)[ip].tokens >= 0
          /\ Store(category)[ip].tokens <= PublishedCapacity(category) * 6000)
  /\ [][IsCheck =>
          LET category == admission'.category
              ip == admission'.ip
              other == IF category = "challenge" THEN "submit" ELSE "challenge"
              before == TokensAt(Store(category), category, ip, now)
              after == IF category = "challenge" THEN rateChallengeStore'[ip].tokens
                       ELSE submitStore'[ip].tokens
          IN /\ admission'.allowed => after = before - 6000
             /\ ~admission'.allowed => after = before
             /\ IF other = "submit" THEN submitStore' = submitStore
                ELSE rateChallengeStore' = rateChallengeStore
             /\ \A x \in DOMAIN Store(category) \ {ip} :
                  IF category = "challenge"
                    THEN rateChallengeStore'[x] = rateChallengeStore[x]
                    ELSE submitStore'[x] = submitStore[x]]_vars

\* C13 witness: a call is denied on a bucket that a sweep has touched and
\* that has refilled part of a token since
C13_DeniedOnPartlyRefilledBucket ==
  /\ admission.category = "submit"
  /\ ~admission.allowed
  /\ limiter.sweeps > 0
  /\ admission.ip \in DOMAIN submitStore
  /\ submitStore[admission.ip].tokens > 0

\* C14: the retry-after returned on denial is the time until a token is
\* available: if an admission check for an (identity, category) pair is
\* denied at time t with retryAfterMs = r and no other request for that pair
\* is made in between (background cleanup sweeps may run), then an admission
\* check for that pair at any time at or after t + r is allowed.
\* (Checked under RateSpec.)
C14_AllowedAfterRetryAfter ==
  [][IsCheck =>
       LET key == <<admission'.category, admission'.ip>>
       IN (/\ key \in DOMAIN limiter.last
           /\ ~limiter.last[key].allowed
           /\ now >= limiter.last[key].at + limiter.last[key].retryAfterMs)
            => admission'.allowed]_vars

\* C15: background cleanup of the rate-limit stores never affects
\* correctness: for every sequence of admission checks and clock advances,
\* the sequence of allowed/denied results (for both categories) is the same
\* whether or not cleanupRateLimitStores runs at arbitrary points in between.
\* (Checked under SweepSpec.)
C15_SweepLeavesResultsUnchanged ==
  limiter.comparing =>
    \A key \in DOMAIN limiter.last :
      limiter.last[key].allowed = limiter.last[key].unswept

\* C16: a rate bucket that is at full capacity and has not been used for
\* longer than the staleness window (5 minutes) is removed from its store by
\* the next run of cleanupRateLimitStores.  (Checked under RateSpec.)
C16_FullIdleBucketEvicted ==
  [][IsSweep =>
       \A category \in Categories : \A ip \in DOMAIN Store(category) :
         (/\ TokensAt(Store(category), category, ip, now)
               = PublishedCapacity(category) * 6000
          /\ <<category, ip>> \in DOMAIN limiter.last
          /\ now - limiter.last[<<category, ip>>].at > 300000)
           => IF category = "challenge" THEN ip \notin DOMAIN rateChallengeStore'
              ELSE ip \notin DOMAIN submitStore']_vars

(***************************************************************************)
(* Properties of the server runs                                           *)
(***************************************************************************)
\* C1: token redemption is exactly-once.  For every token created by
\* createToken, among the validateToken calls made up to its expiry time
\* the first returns valid=true with the challengeId the token was created
\* with, and every later one returns valid=false with the error 'Token not
\* found or already used'.  (Checked under TokenSpec.)
C1_RedemptionExactlyOnce ==
  \A t \in DOMAIN issued :
    LET log == redemptions[t]
    IN /\ Len(log) >= 1 =>
            IF log[1].valid THEN log[1].challengeId = issued[t].challengeId ELSE FALSE
       /\ \A k \in 2..Len(log) :
            /\ ~log[k].valid
            /\ log[k].error = "Token not found or already used"

\* a token redeemed and presented again, twice, before it expired
C1_TokenPresentedThreeTimes ==
  \E t \in DOMAIN issued : Len(redemptions[t]) = 3 /\ now > 0

\* C2: session status is terminal.  A session whose status is passed or
\* failed never changes status again, also when /auth/submit requests to it
\* were suspended in the coherence judgment and resume later.  (Checked
\* under SessionSpec.)
C2_StatusTerminal ==
  [][\A id \in sessions \cap sessions' :
       sessionObjs[id].status \in {"passed", "failed"} =>
         sessionObjs'[id].status = sessionObjs[id].status]_vars

SubmissionOps == {"/auth/submit", "/submit", "ws"}

SubmissionRejections ==
  {"verification_failed", "block_expired", "blocks_exhausted", "rate_limited",
   "invalid_body", "missing_field", "answer_too_long", "session_not_found",
   "session_not_active", "challenge_not_found", "already_verified"}

\* C3: a token exists only because of a successful verification.  Every
\* token in the token store was created by a submission whose verification
\* result was valid, and a submission that fails verification, hits an
\* expired block, is rate-limited or is rejected as malformed adds no
\* token.  (Checked under IssueSpec.)
C3_TokensOnlyFromValidVerification ==
  /\ [](\A t \in DOMAIN tokenStore : t \in DOMAIN issued /\ issued[t].verified)
  /\ [][/\ (response'.op \in SubmissionOps
            /\ response'.outcome \in SubmissionRejections) =>
             DOMAIN tokenStore' \subseteq DOMAIN tokenStore
        /\ ~(DOMAIN tokenStore' \subseteq DOMAIN tokenStore) =>
             /\ response'.op \in SubmissionOps
             /\ response'.outcome = "success"
             /\ response'.verified
             /\ response'.token \in DOMAIN tokenStore' \ DOMAIN tokenStore]_vars

\* a submission is turned away by the rate limit while a token is in the
\* store, and after a block timeout
C3_RateLimitedWhileTokenStored ==
  /\ response.op = "/auth/submit"
  /\ response.outcome = "rate_limited"
  /\ DOMAIN tokenStore # {}
  /\ now > 0

(***************************************************************************)
(* Properties of the challenge generator (checked under GenSpec)           *)
(***************************************************************************)
\* C4: every generated challenge has exactly 5 required words and the 5
\* words are pairwise distinct, whatever the random draws come out as.
\* ('whisper' is both a noun and a verb, so a draw can pick it twice.)
C4_FiveDistinctWords ==
  gen.pc = "generated" =>
    LET w == gen.challenge.words
    IN /\ Len(w) = 5
       /\ \A i, j \in 1..Len(w) : i # j => w[i] # w[j]

\* C5: the target word count of every generated challenge lies in 15..25,
\* for every value 0..255 of the random byte.
C5_WordCountInRange ==
  gen.pc = "generated" =>
    /\ gen.draw.byte \in 0..255
    /\ gen.challenge.wordCount >= 15
    /\ gen.challenge.wordCount <= 25

C5_TopOfRangeFromHighByte ==
  /\ gen.pc = "generated"
  /\ gen.draw.byte > 200
  /\ gen.challenge.wordCount = 25

(***************************************************************************)
(* Properties of the verification pipeline (checked under VerifySpec)      *)
(*                                                                         *)
(* The conditions are stated on the submitted text itself, without the     *)
(* operators of the pipeline.                                              *)
(***************************************************************************)
Visible(text, i) == text[i] \notin WhiteSpace

HasVisible(text) == \E i \in 1..Len(text) : Visible(text, i)

FirstVisible(text) ==
  CHOOSE i \in 1..Len(text) : Visible(text, i) /\ \A j \in 1..(i - 1) : ~Visible(text, j)

LastVisible(text) ==
  CHOOSE i \in 1..Len(text) :
    Visible(text, i) /\ \A j \in (i + 1)..Len(text) : ~Visible(text, j)

\* the length of the text without its leading and trailing whitespace
VisibleLength(text) ==
  IF HasVisible(text) THEN LastVisible(text) - FirstVisible(text) + 1 ELSE 0

WithinLimit(text) == VisibleLength(text) <= 10000

\* w stands at position i as a whole word, letter case ignored: the
\* characters next to it, if any, are neither letters, digits nor "_"
WholeWordAt(text, w, i) ==
  /\ i + Len(w) - 1 <= Len(text)
  /\ \A k \in 1..Len(w) : LowerChar(text[i + k - 1]) = LowerChar(w[k])
  /\ i = 1 \/ text[i - 1] \notin WordCharSet
  /\ i + Len(w) - 1 = Len(text) \/ text[i + Len(w)] \notin WordCharSet

PresentAsWholeWord(w, text) == \E i \in 1..Len(text) : WholeWordAt(text, w, i)

AbsentWords(ch, text) ==
  {ch.words[k] : k \in {n \in 1..Len(ch.words) : ~PresentAsWholeWord(ch.words[n], text)}}

CoverageHolds(ch, text) == AbsentWords(ch, text) = {}

\* whitespace-separated tokens, each counted at its last character
TokenCount(text) ==
  Cardinality({i \in 1..Len(text) :
                 Visible(text, i) /\ (i = Len(text) \/ ~Visible(text, i + 1))})

CountHolds(ch, text) == TokenCount(text) = ch.wordCount

WellFormed(text) ==
  /\ HasVisible(text)
  /\ text[FirstVisible(text)] \in UpperSet
  /\ text[LastVisible(text)] \in {".", "!", "?"}

\* the coherence score of the call is at least 7: the score the call
\* returned, or, where it returned none, the score of an unconfigured oracle
ScoreHolds ==
  IF ver.result.coherenceScore # <<>>
    THEN ver.result.coherenceScore[1] >= 7
    ELSE ~ver.apiKey

ErrorsOfKind(kind) ==
  {i \in 1..Len(ver.result.errors) : ver.result.errors[i].kind = kind}

HasError(kind) == ErrorsOfKind(kind) # {}

\* C6 as stated: verifyCoherent accepts (valid=true, errors empty) if and
\* only if all four conditions hold (coverage, exact count, well-formedness,
\* score at least 7).
C6_AcceptIffFourConditions ==
  ver.pc = "returned" =>
    LET text == CandidateText(ver.candidate)
        ch   == ver.challenge
    IN (ver.result.valid /\ ver.result.errors = <<>>)
         <=> (CoverageHolds(ch, text) /\ CountHolds(ch, text) /\ WellFormed(text)
              /\ ScoreHolds)

\* C6 amended: for a candidate of at most 10,000 characters after trimming,
\* verifyCoherent accepts if and only if all four conditions hold, valid is
\* true exactly when errors is empty, and a condition that fails while the
\* others hold leaves valid=false with the error of that condition present.
C6_AcceptIffFourConditionsWithinLimit ==
  ver.pc = "returned" =>
    LET text == CandidateText(ver.candidate)
        ch   == ver.challenge
        cov  == CoverageHolds(ch, text)
        cnt  == CountHolds(ch, text)
        wf   == WellFormed(text)
    IN WithinLimit(text) =>
         /\ ~ver.result.raised
         /\ ver.result.valid <=> (cov /\ cnt /\ wf /\ ScoreHolds)
         /\ ver.result.valid <=> (ver.result.errors = <<>>)
         /\ ~cov => ~ver.result.valid /\ HasError("Missing words")
         /\ ~cnt => ~ver.result.valid /\ HasError("Word count")
         /\ ~wf => ~ver.result.valid /\ HasError("Grammar")
         /\ (cov /\ cnt /\ wf /\ ver.result.coherenceScore # <<>> /\ ~ScoreHolds) =>
              ~ver.result.valid /\ HasError("Sentence not coherent enough")

\* a candidate with two required words accepted on a score the oracle gave
C6_AcceptedOnOracleScore ==
  /\ ver.pc = "returned"
  /\ ver.result.valid
  /\ ver.reply # <<>>
  /\ ver.reply[1].kind = "content"
  /\ Len(ver.challenge.words) = 2

\* C7: within the length limit the errors list reports exactly the failing
\* checks among coverage, exact count and well-formedness (one entry for a
\* failing check, none for a passing one), and the coverage entry names
\* exactly the required words that are missing.
C7_ErrorsReportExactlyFailingChecks ==
  ver.pc = "returned" =>
    LET text == CandidateText(ver.candidate)
        ch   == ver.challenge
        errs == ver.result.errors
    IN WithinLimit(text) =>
         /\ Cardinality(ErrorsOfKind("Missing words"))
              = (IF CoverageHolds(ch, text) THEN 0 ELSE 1)
         /\ Cardinality(ErrorsOfKind("Word count"))
              = (IF CountHolds(ch, text) THEN 0 ELSE 1)
         /\ Cardinality(ErrorsOfKind("Grammar")) = (IF WellFormed(text) THEN 0 ELSE 1)
         /\ ErrorsOfKind("Sentence too long") = {}
         /\ \A i \in ErrorsOfKind("Missing words") :
              /\ Range(errs[i].missing) = AbsentWords(ch, text)
              /\ Len(errs[i].missing) = Cardinality(AbsentWords(ch, text))
         /\ \A i \in ErrorsOfKind("Word count") :
              errs[i].expected = ch.wordCount /\ errs[i].got = TokenCount(text)

\* all three checks fail at once, and one of two required words is missing
C7_ThreeFailuresOneWordMissing ==
  /\ ver.pc = "returned"
  /\ Len(ver.result.errors) = 3
  /\ Len(ver.challenge.words) = 2
  /\ Len(ver.result.errors[1].missing) = 1

\* C8: the oracle is asked only if coverage, exact count and
\* well-formedness all passed and the length guard did not reject; a
\* candidate failing any of these gets no oracle call and no coherenceScore.
C8_OracleOnlyAfterLocalChecks ==
  ver.pc # "idle" =>
    LET text == CandidateText(ver.candidate)
        ch   == ver.challenge
        pass == /\ WithinLimit(text)
                /\ CoverageHolds(ch, text)
                /\ CountHolds(ch, text)
                /\ WellFormed(text)
    IN /\ ver.fetches > 0 => pass
       /\ ~pass => /\ ver.pc = "returned"
                   /\ ver.fetches = 0
                   /\ ver.result.coherenceScore = <<>>

\* a candidate failing a check while the oracle is configured
C8_RejectedWithoutOracle ==
  /\ ver.pc = "returned"
  /\ ver.apiKey
  /\ ver.fetches = 0
  /\ HasError("Word count")
  /\ ~HasError("Grammar")

\* C9 as stated: every candidate of more than 10,000 characters is rejected
\* with valid=false and a 'too long' error, without any oracle call.
C9_OverlongRejected ==
  ver.pc # "idle" =>
    (Len(CandidateText(ver.candidate)) > 10000 =>
       /\ ver.pc = "returned"
       /\ ~ver.result.valid
       /\ HasError("Sentence too long")
       /\ ver.fetches = 0)

\* C9 amended: every candidate of more than 10,000 characters after
\* trimming is rejected with valid=false and the 'too long' error alone,
\* whatever the other checks would find, without any oracle call.
C9_OverlongAfterTrimRejected ==
  ver.pc # "idle" =>
    LET text == CandidateText(ver.candidate)
    IN ~WithinLimit(text) =>
         /\ ver.pc = "returned"
         /\ ~ver.result.raised
         /\ ~ver.result.valid
         /\ Len(ver.result.errors) = 1
         /\ HasError("Sentence too long")
         /\ ver.result.errors[1].length = VisibleLength(text)
         /\ ver.fetches = 0
         /\ ver.result.coherenceScore = <<>>

\* an overlong candidate that meets coverage, count and well-formedness
C9_OverlongOtherwiseAcceptable ==
  /\ ver.pc = "returned"
  /\ ~WithinLimit(CandidateText(ver.candidate))
  /\ CoverageHolds(ver.challenge, CandidateText(ver.candidate))
  /\ CountHolds(ver.challenge, CandidateText(ver.candidate))
  /\ WellFormed(CandidateText(ver.candidate))
  /\ ~ver.apiKey

\* the oracle gave no usable score: it is unconfigured, the request threw,
\* the response was not OK, or the reply does not parse to a number in 1..10
OracleUnavailable ==
  \/ ~ver.apiKey
  \/ /\ ver.reply # <<>>
     /\ \/ ver.reply[1].kind # "content"
        \/ LET n == parseInt(trim(ver.reply[1].content))
           IN n.isNaN \/ n.value < 1 \/ n.value > 10

\* C10: when the oracle is unavailable the score is the fixed passing score
\* 7: a candidate that passed coverage, count and well-formedness is
\* returned valid=true, and verifyCoherent does not raise.
C10_UnavailableOracleScoresSeven ==
  ver.pc = "returned" =>
    LET text == CandidateText(ver.candidate)
        ch   == ver.challenge
    IN (/\ WithinLimit(text)
        /\ CoverageHolds(ch, text)
        /\ CountHolds(ch, text)
        /\ WellFormed(text)
        /\ OracleUnavailable) =>
         /\ ~ver.result.raised
         /\ ver.result.coherenceScore = <<7>>
         /\ ver.result.valid
         /\ ver.result.errors = <<>>

\* the request to the oracle threw and the candidate was accepted
C10_AcceptedAfterFetchThrew ==
  /\ ver.pc = "returned"
  /\ ver.reply # <<>>
  /\ ver.reply[1].kind = "fetch_throws"
  /\ ver.result.valid

(***************************************************************************)
(* Properties of admission and of the session blocks                       *)
(***************************************************************************)
\* a step that takes a request
TakesRequest == handled' # handled \/ flooding' # flooding

\* C17: the rate limiter is consulted before every challenge issuance and
\* before every answer submission: on every path that generates a challenge
\* (/challenge, /auth/start, WebSocket open) or verifies an answer (/submit,
\* /auth/submit, WebSocket verify), an admission check for the caller's
\* identity happens first and the operation proceeds only if it was allowed.
\* (Checked under IssueSpec.)
C17_AdmissionBeforeIssuanceAndSubmission ==
  [][TakesRequest =>
       LET issues == \/ DOMAIN challengeObjs' # DOMAIN challengeObjs
                     \/ blockLog' # blockLog
           verifies == \/ Len(pending') > Len(pending)
                       \/ /\ response' # response
                          /\ response'.outcome = "verification_failed"
           Admitted(category) == /\ admission'.category = category
                                 /\ admission'.ip = request'.ip
                                 /\ admission'.at = now
                                 /\ admission'.allowed
       IN /\ issues => Admitted("challenge") \/ Admitted("submit")
          /\ verifies => Admitted("submit")]_vars

\* the challenge ids that the sessions have had so far
SessionChallengeIds ==
  UNION {{blockLog[id][i] : i \in 1..Len(blockLog[id])} : id \in DOMAIN blockLog}

\* C18: every session returned by createSession starts in status active at
\* block 1 with maxBlocks 3, owns a freshly generated challenge, has
\* blockStartedAt equal to its creation time, and is retrievable by
\* getSession under its id immediately afterwards.
\* (Checked under SessionSpec.)
C18_CreatedSessionStartsAtBlockOne ==
  [][/\ (/\ TakesRequest
         /\ request'.op = "/auth/start"
         /\ admission'.allowed)
          => DOMAIN sessionObjs' # DOMAIN sessionObjs
     /\ \A id \in DOMAIN sessionObjs' \ DOMAIN sessionObjs :
          LET session == sessionObjs'[id]
          IN /\ session.id = id
             /\ session.status = "active"
             /\ session.currentBlock = 1
             /\ session.maxBlocks = 3
             /\ session.challenge.id \notin SessionChallengeIds
             /\ Len(session.challenge.words) = 5
             /\ session.challenge.wordCount \in 15..25
             /\ session.sessionCreatedAt = now
             /\ session.blockStartedAt = session.sessionCreatedAt
             /\ id \in sessions']_vars

\* C18 witness: a session created after a block timeout, next to an older
\* one, both in the Map
C18_SecondSessionCreatedLater ==
  \E id, old \in sessions :
    /\ sessionObjs[id].sessionCreatedAt = now
    /\ sessionObjs[old].sessionCreatedAt < now
    /\ response.op = "/auth/start"
    /\ response.outcome = "started"

\* C19: in every reachable state a session's block number is within
\* 1..maxBlocks (1..3), and along every execution it never decreases and
\* only ever increases by one at a time.  (Checked under SessionSpec.)
C19_BlockNumberBoundedMonotonic ==
  /\ [](\A id \in DOMAIN sessionObjs :
          /\ sessionObjs[id].currentBlock \in 1..3
          /\ sessionObjs[id].currentBlock <= sessionObjs[id].maxBlocks)
  /\ [][\A id \in DOMAIN sessionObjs :
          \/ sessionObjs'[id].currentBlock = sessionObjs[id].currentBlock
          \/ sessionObjs'[id].currentBlock = sessionObjs[id].currentBlock + 1]_vars

\* C19 witness: a session that failed on its last block, after the block
\* number rose twice
C19_FailedOnLastBlock ==
  \E id \in sessions :
    /\ sessionObjs[id].currentBlock = 3
    /\ sessionObjs[id].status = "failed"
    /\ Len(blockLog[id]) = 3

\* C20: when a submission reaches an active session whose block timeout has
\* elapsed and whose block number is below the maximum, the block number
\* increases by exactly one, the session's challenge is replaced by a newly
\* generated challenge whose identifier differs from that of every earlier
\* block of the session, the block start time is reset to the current time,
\* and the status stays active.  (Checked under SessionSpec.)
C20_ExpiredBlockAdvances ==
  [][(/\ TakesRequest
      /\ request'.op = "/auth/submit"
      /\ admission'.allowed
      /\ request'.kind = "ok"
      /\ request'.answerLength <= 10000
      /\ request'.ref \in sessions
      /\ sessionObjs[request'.ref].status = "active"
      /\ now - sessionObjs[request'.ref].blockStartedAt
           > sessionObjs[request'.ref].blockTimeoutMs
      /\ sessionObjs[request'.ref].currentBlock < sessionObjs[request'.ref].maxBlocks)
       => LET before == sessionObjs[request'.ref]
              after == sessionObjs'[request'.ref]
          IN /\ after.currentBlock = before.currentBlock + 1
             /\ \A i \in 1..Len(blockLog[before.id]) :
                  after.challenge.id # blockLog[before.id][i]
             /\ after.challenge.id # before.challenge.id
             /\ Len(after.challenge.words) = 5
             /\ after.blockStartedAt = now
             /\ after.status = "active"]_vars

\* C20 witness: a session on its third block, still active, whose block has
\* just started
C20_AdvancedToThirdBlock ==
  \E id \in sessions :
    /\ sessionObjs[id].currentBlock = 3
    /\ sessionObjs[id].status = "active"
    /\ sessionObjs[id].blockStartedAt = now
    /\ Len(blockLog[id]) = 3
    /\ response.outcome = "block_expired"

\* a step in which /auth/submit takes a request that passes the admission
\* check and the checks of its body and names an active session in the Map
ReachesActiveSession ==
  /\ TakesRequest
  /\ request'.op = "/auth/submit"
  /\ admission'.allowed
  /\ request'.kind = "ok"
  /\ request'.answerLength <= MAX_SENTENCE_LENGTH
  /\ request'.ref \in sessions
  /\ sessionObjs[request'.ref].status = "active"

\* the block timeout of session has elapsed at time t
TimeoutElapsed(session, t) == t - session.blockStartedAt > session.blockTimeoutMs

\* C21: a session timing out on its last block transitions to failed and
\* issues no further challenges: a submission reaching an active session at
\* block = maxBlocks after the block timeout elapsed sets status to failed
\* without generating a challenge, and over its whole life a session is
\* given at most maxBlocks (3) challenges.  (Checked under SessionSpec.)
C21_LastBlockTimeoutFails ==
  /\ [](\A id \in DOMAIN blockLog : Len(blockLog[id]) <= 3)
  /\ [][\A id \in DOMAIN sessionObjs :
          /\ sessionObjs'[id].challenge # sessionObjs[id].challenge
               => /\ blockLog'[id] = Append(blockLog[id], sessionObjs'[id].challenge.id)
                  /\ sessionObjs[id].status = "active"
          /\ sessionObjs[id].status = "failed"
               => /\ sessionObjs'[id].challenge = sessionObjs[id].challenge
                  /\ sessionObjs'[id].currentBlock = sessionObjs[id].currentBlock]_vars
  /\ [][(/\ ReachesActiveSession
          /\ TimeoutElapsed(sessionObjs[request'.ref], now)
          /\ sessionObjs[request'.ref].currentBlock = sessionObjs[request'.ref].maxBlocks)
           => LET before == sessionObjs[request'.ref]
                  after == sessionObjs'[request'.ref]
              IN /\ after.status = "failed"
                 /\ after.challenge = before.challenge
                 /\ after.currentBlock = before.currentBlock
                 /\ blockLog' = blockLog
                 /\ fresh' = fresh
                 /\ response'.outcome = "blocks_exhausted"]_vars

\* C21 witness: the submission that found the last block timed out has just
\* been answered, and the session is failed with three challenges behind it
C21_ExhaustedJustNow ==
  /\ response.op = "/auth/submit"
  /\ response.outcome = "blocks_exhausted"
  /\ \E id \in sessions :
       /\ request.ref = id
       /\ sessionObjs[id].status = "failed"
       /\ sessionObjs[id].failedAt = <<now>>
       /\ Len(blockLog[id]) = 3

\* a step in which /auth/submit starts the verification of an answer: it
\* either suspends in the request to the oracle or answers that the local
\* checks failed
StartsVerification ==
  /\ TakesRequest
  /\ request'.op = "/auth/submit"
  /\ \/ Len(pending') > Len(pending)
     \/ /\ pending' = pending
        /\ response'.outcome = "verification_failed"

\* C22: expiry is checked before verification on every submission: no
\* verification (and no coherence-oracle call) is ever started for a
\* submission that arrived after the current block's timeout had elapsed
\* against that expired block's challenge; such a submission first goes
\* through the block-advance or terminate transition.
\* (Checked under SessionSpec.)
C22_ExpiryCheckedBeforeVerification ==
  /\ [][StartsVerification =>
          /\ request'.ref \in sessions
          /\ ~TimeoutElapsed(sessionObjs[request'.ref], now)
          /\ sessionObjs'[request'.ref] = sessionObjs[request'.ref]
          /\ Len(pending') > Len(pending) =>
               LET entry == pending'[Len(pending')]
               IN /\ entry.ref = request'.ref
                  /\ entry.against = sessionObjs[request'.ref].challenge.id
                  /\ now - entry.blockStartedAt <= challengeTimeoutMs]_vars
  /\ [][(ReachesActiveSession /\ TimeoutElapsed(sessionObjs[request'.ref], now))
           => /\ pending' = pending
              /\ response'.outcome \in {"block_expired", "blocks_exhausted"}
              /\ \/ /\ sessionObjs'[request'.ref].status = "active"
                    /\ sessionObjs'[request'.ref].blockStartedAt = now
                    /\ sessionObjs'[request'.ref].challenge.id
                         # sessionObjs[request'.ref].challenge.id
                 \/ sessionObjs'[request'.ref].status = "failed"]_vars

\* C22 witness: an answer is with the oracle, verified against the
\* challenge of the second block, which a submission that came after the
\* timeout of the first block had opened
C22_VerifyingAfterAdvance ==
  \E i \in 1..Len(pending) :
    LET id == pending[i].ref
    IN /\ pending[i].op = "/auth/submit"
       /\ Len(blockLog[id]) = 2
       /\ pending[i].against = blockLog[id][2]
       /\ pending[i].blockStartedAt > sessionObjs[id].sessionCreatedAt + challengeTimeoutMs

\* a step in which /auth/submit answers that the verification of an answer
\* failed: at once, when the local checks fail, or when the oracle's
\* judgment has come back and the result is not valid
FailsVerification ==
  \/ /\ StartsVerification
     /\ pending' = pending
  \/ /\ Len(pending') < Len(pending)
     /\ response'.op = "/auth/submit"
     /\ \/ response'.outcome = "verification_failed"
        \/ /\ response'.outcome = "success"
           /\ ~response'.verified

\* C23: a submission whose verification fails causes no session state
\* change: status stays active and the block number, challenge and block
\* start time are unchanged, for any number of failed submissions made
\* within the same block's timeout (the session machine itself imposes no
\* attempt limit inside a block: whatever came before, a submission that
\* reaches an active session within the timeout is verified).
\* (Checked under SessionSpec.)
C23_FailedVerificationChangesNothing ==
  /\ [][FailsVerification =>
          /\ sessionObjs' = sessionObjs
          /\ sessions' = sessions
          /\ blockLog' = blockLog]_vars
  /\ [][(/\ FailsVerification
          /\ TakesRequest)
           => sessionObjs'[request'.ref].status = "active"]_vars
  /\ [][(/\ ReachesActiveSession
          /\ ~TimeoutElapsed(sessionObjs[request'.ref], now)
          /\ Len(pending) < MaxPending)
           => StartsVerification]_vars

\* C23 witness: the fourth submission made in the first block of a session
\* has just failed verification, and the session is as it was created
C23_FourthSubmissionFailed ==
  /\ handled = 5
  /\ response.op = "/auth/submit"
  /\ response.outcome = "verification_failed"
  /\ pending = <<>>
  /\ issued = <<>>
  /\ \E id \in sessions :
       /\ DOMAIN sessionObjs = {id}
       /\ request.ref = id
       /\ sessionObjs[id].status = "active"
       /\ sessionObjs[id].currentBlock = 1
       /\ blockLog[id] = <<sessionObjs[id].challenge.id>>
       /\ submitStore[sessionObjs[id].clientIp].tokens = 26 * TOKEN_UNIT

\* in this step the suspended handler pending[i] of /auth/submit resumes
\* with the oracle's judgment
Resumes(i) ==
  /\ i \in 1..Len(pending)
  /\ pending[i].op = "/auth/submit"
  /\ pending' = PendingWithout(i)
  /\ handled' = handled

\* C24: a late success is honored: if a submission's verification started
\* before the block timeout and the coherence judgment returns a pass after
\* the block timeout has elapsed, the session still becomes passed and a
\* token is issued for that block (it names the challenge of that block
\* unless another submission has advanced the session during the wait,
\* and the session's current challenge in any case).
\* (Checked under SessionSpec.)
C24_LateSuccessHonored ==
  [][\A i \in 1..Len(pending) :
       (/\ Resumes(i)
        /\ "verified" \in DOMAIN response'
        /\ response'.op = "/auth/submit"
        /\ response'.verified
        /\ now - pending[i].blockStartedAt > challengeTimeoutMs)
         => LET before == sessionObjs[pending[i].ref]
                after == sessionObjs'[pending[i].ref]
            IN /\ response'.outcome = "success"
               /\ after.status = "passed"
               /\ after.passedAt = <<now>>
               /\ response'.token \in DOMAIN tokenStore' \ DOMAIN tokenStore
               /\ tokenStore'[response'.token].issuedAt = now
               /\ tokenStore'[response'.token].challengeId = before.challenge.id
               /\ before.currentBlock = after.currentBlock
               /\ before.challenge.id = pending[i].against
                    => tokenStore'[response'.token].challengeId = pending[i].against]_vars

\* C24 witness: a session that passed on its first block, with a token, one
\* block timeout after the answer was submitted
C24_PassedAfterTimeout ==
  \E t \in DOMAIN issued :
    /\ issued[t].op = "/auth/submit"
    /\ issued[t].issuedAt - issued[t].blockStartedAt > challengeTimeoutMs
    /\ issued[t].verified
    /\ issued[t].challengeId = issued[t].against
    /\ sessionObjs[issued[t].ref].status = "passed"
    /\ sessionObjs[issued[t].ref].currentBlock = 1
    /\ sessionObjs[issued[t].ref].passedAt = <<issued[t].issuedAt>>
    /\ t \in DOMAIN tokenStore
    /\ response.outcome = "success"

\* C25: the session is mutated after the coherence wait using the state
\* observed before it: the token issued for a passing submission references
\* the challenge that the answer was actually verified against, under every
\* interleaving of other submissions to the same session (including ones
\* that advance the block) during the wait.  (Checked under SessionSpec.)
C25_TokenReferencesVerifiedChallenge ==
  \A t \in DOMAIN issued :
    issued[t].op = "/auth/submit" => issued[t].challengeId = issued[t].against

\* C26: the token issued when a session passes is bound to the session's
\* identity: its identity binding equals the owning identity recorded on
\* the session at creation, whatever address the passing submission came
\* from.  (Checked under BindSpec.)
C26_TokenBoundToSessionIdentity ==
  \A t \in DOMAIN issued :
    issued[t].op = "/auth/submit"
      => issued[t].clientIp = sessionObjs[issued[t].ref].clientIp

\* session id is older than the maximum age at time t
OlderThanMaxAge(id, t) == t - sessionObjs[id].sessionCreatedAt > SESSION_MAX_AGE_MS

\* the sessions in the Map that were created while the clock of the run
\* could still advance by the maximum age
DueSessions ==
  {id \in sessions : sessionObjs[id].sessionCreatedAt + AgeStep <= ExpiryHorizon}

\* C27: session expiry removes old sessions regardless of status: after
\* every run of the session sweep (from any state the server reaches, and
\* in every step that changes the Map) no session older than the maximum
\* age (5 minutes) remains in the store, whether active, passed or failed,
\* so with the sweep running periodically every session is eventually
\* removed (every session that the clock of the run can outlast).
\* (Checked under ExpirySpec, whose clock and sweep timer are fair.)
C27_SweepRemovesOldSessions ==
  /\ [](\A id \in cleanupOldSessions(sessions, sessionObjs, now) :
          ~OlderThanMaxAge(id, now))
  /\ [][sessions' # sessions
          => \A id \in sessions' :
               ~(now' - sessionObjs'[id].sessionCreatedAt > SESSION_MAX_AGE_MS)]_vars
  /\ <>[](DueSessions = {})

\* C27 witness: a session that failed and a session still active, both
\* older than the maximum age, are gone from the Map
C27_FailedAndActiveRemoved ==
  \E a, b \in DOMAIN sessionObjs \ sessions :
    /\ sessionObjs[a].status = "failed"
    /\ sessionObjs[b].status = "active"
    /\ OlderThanMaxAge(a, now)
    /\ OlderThanMaxAge(b, now)
    /\ sessions = {}

\* the sessions created after session id
CreatedAfter(id) == {j \in DOMAIN sessionObjs : SortedBefore(sessionObjs, id, j)}

\* C28: a session is destroyed only by the expiry sweep or by explicit
\* deletion: a session younger than the maximum session age on which
\* deleteSession was not called is in the store and retrievable by
\* getSession in every reachable state, however many other sessions are
\* created.  (Checked under StoreSpec.)
C28_YoungSessionInStore ==
  \A id \in DOMAIN sessionObjs :
    (~OlderThanMaxAge(id, now) /\ id \notin deleted) => id \in sessions

\* C28, amended: a session younger than the maximum session age on which
\* deleteSession was not called is in the store and retrievable by
\* getSession in every reachable state, unless MAX_SESSIONS or more sessions
\* were created after it.  (Checked under StoreSpec.)
C28_YoungSessionInStoreUnlessCrowdedOut ==
  \A id \in DOMAIN sessionObjs :
    (~OlderThanMaxAge(id, now) /\ id \notin deleted)
      => \/ id \in sessions
         \/ Cardinality(CreatedAfter(id)) >= MAX_SESSIONS

\* C28 witness: a young session that nobody deleted has left the Map, which
\* is full of sessions created after it, the last of them just now
C28_OldestEvictedFromFullMap ==
  \E id \in DOMAIN sessionObjs \ sessions :
    /\ ~OlderThanMaxAge(id, now)
    /\ id \notin deleted
    /\ Cardinality(sessions) = MAX_SESSIONS
    /\ sessions \subseteq CreatedAfter(id)
    /\ response.outcome = "started"

\* C29: each challenge of the single-shot flow can be verified only once:
\* for every stored challenge, under every interleaving of submissions for
\* it (HTTP /submit or WebSocket verify, including several suspended in the
\* coherence judgment at the same time), at most one submission returns
\* success and at most one token is issued for that challenge.
\* (Checked under IssueSpec.)
C29_ChallengeVerifiedAtMostOnce ==
  \A id \in DOMAIN challengeObjs :
    Cardinality({t \in DOMAIN issued : /\ issued[t].op \in {"/submit", "ws"}
                                       /\ issued[t].ref = id}) <= 1

\* C30: multi-block authentication takes bounded time: a session can have
\* a submission verified, and so can pass, only within maxBlocks x
\* blockTimeout (3 x 9 s = 27 s by default) of its creation; after that
\* time no submission to the session is verified and no token is issued for
\* it.  (Checked under SessionSpec.)
C30_VerifiedOnlyWithinAllBlocksTime ==
  [][/\ StartsVerification
          => LET session == sessionObjs[request'.ref]
             IN now - session.sessionCreatedAt
                  <= session.maxBlocks * session.blockTimeoutMs
     /\ \A t \in DOMAIN issued' \ DOMAIN issued :
          LET session == sessionObjs[issued'[t].ref]
          IN now - session.sessionCreatedAt
               <= session.maxBlocks * session.blockTimeoutMs]_vars

(***************************************************************************)
(* Properties of the tokens, of the stores and of the requests turned away *)
(***************************************************************************)
\* a step in which /validate answers a request for token
Validates(token) ==
  /\ TakesRequest
  /\ request'.op = "/validate"
  /\ request'.token = token

\* C35: no token is ever redeemed as valid after its expiry: a
\* validateToken call made at a time later than the token's expiresAt
\* returns valid=false and leaves the token absent from the store, so the
\* token can never be redeemed afterwards.  (Checked under TokenSpec.)
C35_NeverValidAfterExpiry ==
  [][\A token \in DOMAIN issued :
       /\ (Validates(token) /\ now > issued[token].expiresAt)
            => /\ ~response'.outcome.valid
               /\ token \notin DOMAIN tokenStore'
       /\ (Validates(token) /\ response'.outcome.valid)
            => /\ now <= issued[token].expiresAt
               /\ token \in DOMAIN tokenStore
       /\ token \notin DOMAIN tokenStore => token \notin DOMAIN tokenStore']_vars

\* C35 witness: a token that nobody had redeemed is presented after its
\* expiry, is answered 'Token expired' and is gone from the store
C35_ExpiredTokenTurnedAway ==
  /\ request.op = "/validate"
  /\ request.token \in DOMAIN issued
  /\ now > issued[request.token].expiresAt
  /\ response.op = "/validate"
  /\ ~response.outcome.valid
  /\ response.outcome.error = "Token expired"
  /\ request.token \notin DOMAIN tokenStore

\* the tokens issued by /auth/submit for the session id
TokensOfSession(id) ==
  {token \in DOMAIN issued : issued[token].op = "/auth/submit" /\ issued[token].ref = id}

\* C36: at most one token is ever issued for a session, also when several
\* /auth/submit requests for the same session are in flight at once.
C36_OneTokenPerSession ==
  \A id \in DOMAIN sessionObjs : Cardinality(TokensOfSession(id)) <= 1

\* the sessions created by this step
CreatedNow == DOMAIN sessionObjs' \ DOMAIN sessionObjs

\* the sessions that leave the Map in this step without a call of
\* deleteSession: the sweep or the eviction of cleanupOldSessions took them
SweptNow == ((sessions \cup CreatedNow) \ sessions') \ (deleted' \ deleted)

\* C39: the session store is bounded: after every createSession and every
\* sweep it holds at most MAX_SESSIONS sessions, the sessions that leave it
\* are older than all those that stay (the oldest creation time is evicted
\* first), and the session just created is never among those that leave.
\* (Checked under StoreSpec, MAX_SESSIONS scaled down.)
C39_SessionStoreBounded ==
  [][/\ Cardinality(sessions') <= MAX_SESSIONS
     /\ \A e \in SweptNow, r \in sessions' : SortedBefore(sessionObjs', e, r)
     /\ CreatedNow \subseteq sessions']_vars

\* C39 witness: /auth/start has just created a session in a full Map: the
\* new session is in the Map, which holds MAX_SESSIONS sessions, and an
\* older session that was neither deleted nor due for the sweep has left it
C39_NewSessionKeptInFullStore ==
  /\ response = Respond("/auth/start", 200, "started")
  /\ Cardinality(sessions) = MAX_SESSIONS
  /\ \E id \in sessions :
       /\ sessionObjs[id].sessionCreatedAt = now
       /\ CreatedAfter(id) = {}
       /\ \E e \in DOMAIN sessionObjs \ (sessions \cup deleted) :
            /\ ~OlderThanMaxAge(e, now)
            /\ SortedBefore(sessionObjs, e, id)

\* the session ids sent to GET /auth/status: none, one the server never
\* gave out, and the ones it gave out
StatusQueries ==
  {[kind |-> "missing"]}
    \cup {[kind |-> "ok", sessionId |-> id] :
            id \in DOMAIN sessionObjs \cup {generateSessionId(0)}}

\* the response of GET /auth/status for a session
RespondStatus(session, t) ==
  [op |-> "/auth/status", status |-> 200, outcome |-> "status",
   sessionStatus |-> session.status, currentBlock |-> session.currentBlock,
   blockExpired |-> isBlockExpired(session, t),
   timeRemaining |-> Max(0, session.blockTimeoutMs - (t - session.blockStartedAt))]

\* the handler of /auth/status moving a session whose block has timed out
\* on to its next block
AuthStatus_AdvancesExpired ==
  /\ flooding.left = 0
  /\ handled < MaxRequests
  /\ handled' = handled + 1
  /\ \E ip \in Clients, query \in StatusQueries, d \in FlowDraws :
       /\ request' = Request("/auth/status", ip, query)
       /\ IF query.kind = "ok" /\ query.sessionId \in sessions
            THEN LET session == sessionObjs[query.sessionId]
                 IN /\ response' = RespondStatus(session, now)
                    /\ IF session.status = "active" /\ isBlockExpired(session, now)
                         THEN sessionObjs' =
                                [sessionObjs EXCEPT ![session.id] =
                                   advanceToNextBlock(session, d, fresh, now)]
                         ELSE UNCHANGED sessionObjs
            ELSE /\ response' = Respond("/auth/status", 404, "session_not_found")
                 /\ UNCHANGED sessionObjs
  /\ admission' = NoAdmission
  /\ UNCHANGED <<gen, ver, peeks, wsVars, logVars, deleted, flooding, now, sessions,
                 challengeStore, challengeObjs, tokenStore, rateChallengeStore,
                 submitStore, pending, fresh, issued, redemptions, limiter, blockLog>>

\* GET /auth/status: the numbers of getSessionStats when no session is
\* named, 404 for a session that is not in the Map, and otherwise what
\* the session object says; nothing is written.
AuthStatus ==
  /\ flooding.left = 0
  /\ handled < MaxRequests
  /\ handled' = handled + 1
  /\ \E ip \in Clients, query \in StatusQueries :
       /\ request' = Request("/auth/status", ip, query)
       /\ response' =
            IF query.kind = "missing"
              THEN [op |-> "/auth/status", status |-> 200, outcome |-> "stats",
                    active |-> Cardinality({id \in sessions :
                                              sessionObjs[id].status = "active"}),
                    total |-> Cardinality(sessions)]
            ELSE IF query.sessionId \notin sessions
              THEN Respond("/auth/status", 404, "session_not_found")
            ELSE RespondStatus(sessionObjs[query.sessionId], now)
  /\ admission' = NoAdmission
  /\ UNCHANGED <<gen, ver, peeks, wsVars, logVars, deleted, flooding, now, sessions, sessionObjs,
                 challengeStore, challengeObjs, tokenStore, rateChallengeStore,
                 submitStore, pending, fresh, issued, redemptions, limiter, blockLog>>

\* Runs of the session flow with status queries and bursts: sessions are
\* started, answered and timed out, their status is queried at any time,
\* and bursts of requests empty the bucket of /auth/submit.
StatusNext ==
  \/ Tick({BlockStep}, MaxBlockTimeouts * BlockStep)
  \/ AuthStart
  \/ AuthSubmit
  \/ AuthSubmitResume
  \/ AuthSubmitFlood
  \/ FloodStep
  \/ AuthStatus

StatusSpec == Init /\ [][StatusNext]_vars

(***************************************************************************)
(* Looking at a token without redeeming it (token.ts)                      *)
(***************************************************************************)
MaxPeeks == 2

\* the calls of isTokenValid and getTokenInfo made so far for token
PeeksAt(token) == IF token \in DOMAIN peeks THEN peeks[token] ELSE 0

\* isTokenValid deleting the token it finds valid
IsTokenValid_Consumes ==
  /\ flooding.left = 0
  /\ \E token \in DOMAIN issued :
       /\ PeeksAt(token) < MaxPeeks
       /\ peeks' = Put(peeks, token, PeeksAt(token) + 1)
       /\ request' = [op |-> "isTokenValid", token |-> token]
       /\ response' = [op |-> "isTokenValid",
                       outcome |-> IF /\ token \in DOMAIN tokenStore
                                      /\ ~(now > tokenStore[token].expiresAt)
                                     THEN "true" ELSE "false"]
       /\ tokenStore' = Remove(tokenStore, token)
  /\ UNCHANGED <<gen, ver, wsVars, logVars, deleted, now, sessions, sessionObjs,
                 challengeStore, challengeObjs, rateChallengeStore, submitStore, pending,
                 fresh, handled, flooding, issued, redemptions, admission, limiter,
                 blockLog>>

\* isTokenValid(token): false for a token that is not in the store, false
\* for an expired one, which it deletes, and true otherwise
IsTokenValid ==
  /\ flooding.left = 0
  /\ \E token \in DOMAIN issued :
       /\ PeeksAt(token) < MaxPeeks
       /\ peeks' = Put(peeks, token, PeeksAt(token) + 1)
       /\ request' = [op |-> "isTokenValid", token |-> token]
       /\ IF token \notin DOMAIN tokenStore
            THEN /\ response' = [op |-> "isTokenValid", outcome |-> "false"]
                 /\ UNCHANGED tokenStore
          ELSE IF now > tokenStore[token].expiresAt
            THEN /\ response' = [op |-> "isTokenValid", outcome |-> "false"]
                 /\ tokenStore' = Remove(tokenStore, token)
          ELSE /\ response' = [op |-> "isTokenValid", outcome |-> "true"]
               /\ UNCHANGED tokenStore
  /\ UNCHANGED <<gen, ver, wsVars, logVars, deleted, now, sessions, sessionObjs,
                 challengeStore, challengeObjs, rateChallengeStore, submitStore, pending,
                 fresh, handled, flooding, issued, redemptions, admission, limiter,
                 blockLog>>

\* getTokenInfo(token): undefined for a token that is not in the store,
\* undefined for an expired one, which it deletes, and the token's data
\* otherwise
GetTokenInfo ==
  /\ flooding.left = 0
  /\ \E token \in DOMAIN issued :
       /\ PeeksAt(token) < MaxPeeks
       /\ peeks' = Put(peeks, token, PeeksAt(token) + 1)
       /\ request' = [op |-> "getTokenInfo", token |-> token]
       /\ IF token \notin DOMAIN tokenStore
            THEN /\ response' = [op |-> "getTokenInfo", outcome |-> "undefined"]
                 /\ UNCHANGED tokenStore
          ELSE IF now > tokenStore[token].expiresAt
            THEN /\ response' = [op |-> "getTokenInfo", outcome |-> "undefined"]
                 /\ tokenStore' = Remove(tokenStore, token)
          ELSE /\ response' = [op |-> "getTokenInfo", outcome |-> "info",
                               info |-> tokenStore[token]]
               /\ UNCHANGED tokenStore
  /\ UNCHANGED <<gen, ver, wsVars, logVars, deleted, now, sessions, sessionObjs,
                 challengeStore, challengeObjs, rateChallengeStore, submitStore, pending,
                 fresh, handled, flooding, issued, redemptions, admission, limiter,
                 blockLog>>

\* Runs of the tokens with looks at them: tokens are issued through the
\* session flow, looked at, redeemed or left to expire.
PeekNext ==
  \/ Tick({tokenExpiryMs, TokenStep}, TokenStep)
  \/ AuthStart
  \/ AuthSubmit
  \/ AuthSubmitResume
  \/ Validate
  \/ IsTokenValid
  \/ GetTokenInfo

PeekSpec == Init /\ [][PeekNext]_vars

(***************************************************************************)
(* The sweep of the challenges (challenges/index.ts)                       *)
(***************************************************************************)
\* the limit of the Map challengeStore, 10000, scaled down
MAX_CHALLENGES == 2

\* the order of sortedChallenges: by createdAt, and by insertion where the
\* times are equal (the sort is stable)
ChallengeSortedBefore(objs, j, k) ==
  \/ objs[j].createdAt < objs[k].createdAt
  \/ /\ objs[j].createdAt = objs[k].createdAt
     /\ j[3] < k[3]

\* cleanupChallenges that removes a challenge already at its expiry time
cleanupChallenges_AtExpiry(keys, objs, t) ==
  LET live == {k \in keys : ~(objs[k].expiresAt <= t)}
      toRemove == Cardinality(live) - MAX_CHALLENGES
  IN IF Cardinality(live) > MAX_CHALLENGES
       THEN {k \in live :
               Cardinality({j \in live : ChallengeSortedBefore(objs, j, k)}) >= toRemove}
       ELSE live

\* cleanupChallenges at time t: the keys it leaves in the Map
cleanupChallenges(keys, objs, t) ==
  LET live == {k \in keys : ~(objs[k].expiresAt < t)}
      toRemove == Cardinality(live) - MAX_CHALLENGES
  IN IF Cardinality(live) > MAX_CHALLENGES
       THEN {k \in live :
               Cardinality({j \in live : ChallengeSortedBefore(objs, j, k)}) >= toRemove}
       ELSE live

\* the timer of cleanupChallenges, every 10 seconds
CleanupChallenges ==
  /\ flooding.left = 0
  /\ challengeStore' = cleanupChallenges(challengeStore, challengeObjs, now)
  /\ UNCHANGED <<gen, ver, peeks, wsVars, logVars, deleted, now, sessions, sessionObjs,
                 challengeObjs, tokenStore, rateChallengeStore, submitStore, pending,
                 response, fresh, handled, flooding, issued, redemptions, admission,
                 limiter, request, blockLog>>

\* Runs of the single-shot flow with the two sweeps: challenges are issued,
\* answered and redeemed while the clock passes the expiry times and the
\* timers of cleanupChallenges and cleanupTokens fire at any time.
CleanupNext ==
  \/ Tick({challengeTimeoutMs, BlockStep}, BlockStep)
  \/ Tick({tokenExpiryMs, TokenStep}, TokenStep + BlockStep)
  \/ Challenge
  \/ Submit
  \/ SubmitResume
  \/ Validate
  \/ CleanupTokens
  \/ CleanupChallenges

CleanupSpec == Init /\ [][CleanupNext]_vars

\* the configurations index.ts may pass to configureLogger at startup
LoggerConfigs ==
  {[enabled |-> e, level |-> l] : e \in BOOLEAN, l \in {"info", "warn", "error"}}

\* index.ts: configureLogger, called once before the server takes requests
ConfigureLogger ==
  /\ handled = 0
  /\ now = 0
  /\ failures = <<>>
  /\ \E config \in LoggerConfigs : loggerConfig' = config
  /\ UNCHANGED <<gen, ver, peeks, wsVars, failureTracker, logged, failures, deleted, now, sessions,
                 sessionObjs, challengeStore, challengeObjs, tokenStore,
                 rateChallengeStore, submitStore, pending, response, fresh, handled,
                 flooding, issued, redemptions, admission, limiter, request, blockLog>>

MaxFailures == 6

\* A handler other than those of the WebSocket reaches one of its calls of
\* logFailure, for the address of its request.
LogFailure ==
  /\ flooding.left = 0
  /\ Len(failures) < MaxFailures
  /\ \E ip \in Clients \cup Visitors : logFailure("verification_failed", ip)
  /\ UNCHANGED <<gen, ver, peeks, wsVars, deleted, now, sessions, sessionObjs, challengeStore,
                 challengeObjs, tokenStore, rateChallengeStore, submitStore, pending,
                 response, fresh, handled, flooding, issued, redemptions, admission,
                 limiter, request, blockLog>>

\* the timer of cleanupFailureTracker, every minute
CleanupFailureTracker ==
  /\ flooding.left = 0
  /\ failureTracker' = cleanupFailureTracker(failureTracker, now)
  /\ UNCHANGED <<gen, ver, peeks, wsVars, loggerConfig, logged, failures, deleted, now, sessions,
                 sessionObjs, challengeStore, challengeObjs, tokenStore,
                 rateChallengeStore, submitStore, pending, response, fresh, handled,
                 flooding, issued, redemptions, admission, limiter, request, blockLog>>

\* Runs of the failure log: failures of two addresses are logged while the
\* clock moves to the edge of the window and past it, and the timer of the
\* cleanup fires at any time.
LogNext ==
  \/ Tick({FAILURE_WINDOW_MS - 1, FAILURE_WINDOW_MS}, 2 * FAILURE_WINDOW_MS - 1)
  \/ ConfigureLogger
  \/ LogFailure
  \/ CleanupFailureTracker

LogSpec == Init /\ [][LogNext]_vars

\* Runs of the WebSocket flow: connections are opened and closed, verify
\* messages name any challenge the server made, over WebSocket or /challenge.
WsNext ==
  \/ Challenge
  \/ WsUpgrade
  \/ WsMessage
  \/ SubmitResume
  \/ WsClose

WsSpec == Init /\ [][WsNext]_vars

\* Runs of the WebSocket connections alone: upgrade requests from two
\* addresses and closes, in any order.
ConnNext ==
  \/ WsUpgrade
  \/ WsClose

ConnSpec == Init /\ [][ConnNext]_vars

\* a step in which the verify message that waited at place i of pending,
\* received on a WebSocket, gets the answer of the oracle
ResumesVerify(i) ==
  /\ pending[i].op = "ws"
  /\ "conn" \in DOMAIN pending[i]
  /\ pending' = PendingWithout(i)
  /\ response'.op = "ws"

\* C31: a WebSocket verify message is only honoured for the challenge that
\* was sent on that same connection: a verify message that names any other
\* challenge never yields success or a token.
C31_VerifyOnlyOwnChallenge ==
  [][\A i \in 1..Len(pending) :
       (ResumesVerify(i) /\ pending[i].ref # wsData[pending[i].conn].challengeId)
         => /\ issued' = issued
            /\ response'.status # 200]_vars

\* the connections that are open, all of them and those of one address
OpenConnections == {c \in DOMAIN wsData : wsData[c].open}

OpenConnectionsOf(ip) == {c \in OpenConnections : wsData[c].clientIp = ip}

\* C32: the WebSocket connection limits hold in every reachable state: at
\* most MAX_TOTAL_CONNECTIONS connections are open in total and at most
\* MAX_CONNECTIONS_PER_IP per client address, under any interleaving of
\* upgrades, opens and closes, and the counters totalConnections and
\* connectionsPerIp equal the real numbers of open connections.  (Checked
\* under ConnSpec, the limits 1000 and 10 scaled down.)
C32_ConnectionLimitsHold ==
  /\ Cardinality(OpenConnections) <= MAX_TOTAL_CONNECTIONS
  /\ totalConnections = Cardinality(OpenConnections)
  /\ \A ip \in Clients \cup Visitors :
       /\ Cardinality(OpenConnectionsOf(ip)) <= MAX_CONNECTIONS_PER_IP
       /\ ConnectionsOf(ip) = Cardinality(OpenConnectionsOf(ip))
  /\ \A ip \in DOMAIN connectionsPerIp : connectionsPerIp[ip] > 0

\* C32 witness: after a connection was closed and others were opened, an
\* upgrade request is turned away with 503 while MAX_TOTAL_CONNECTIONS
\* connections are open, MAX_CONNECTIONS_PER_IP of them of one address
C32_TurnedAwayAtCapacity ==
  /\ response = Respond("/ws", 503, "at_capacity")
  /\ Cardinality(OpenConnections) = MAX_TOTAL_CONNECTIONS
  /\ \E ip \in Clients \cup Visitors :
       Cardinality(OpenConnectionsOf(ip)) = MAX_CONNECTIONS_PER_IP
  /\ \E c \in DOMAIN wsData : ~wsData[c].open

\* the failures recorded in fs for the address ip that are less than
\* FAILURE_WINDOW_MS old at time t
FailuresInWindow(fs, ip, t) ==
  Cardinality({i \in 1..Len(fs) : fs[i].ip = ip /\ t - fs[i].at < FAILURE_WINDOW_MS})

SweepsNow ==
  /\ handled' = handled
  /\ pending' = pending
  /\ now' = now
  /\ challengeStore' # challengeStore \/ tokenStore' # tokenStore

\* the challenges in the Map that getChallenge would still return
LiveChallenges == {id \in challengeStore : ~(now > challengeObjs[id].expiresAt)}

\* every token the sweep removes is one validateToken rejects as expired
SweepsExpiredTokens ==
  \A token \in DOMAIN tokenStore \ DOMAIN tokenStore' : now > tokenStore[token].expiresAt

\* the sweeps leave redemption as it is: the first /validate of an issued
\* token up to its expiry time is valid, no token has two valid
\* redemptions, and /validate of a token that is absent changes nothing
RedemptionUnharmed ==
  /\ \A token \in DOMAIN issued :
       /\ (/\ Validates(token)
           /\ now <= issued[token].expiresAt
           /\ redemptions[token] = <<>>) => response'.outcome.valid
       /\ (Validates(token) /\ token \notin DOMAIN tokenStore)
            => ~response'.outcome.valid /\ tokenStore' = tokenStore
  /\ \A token \in DOMAIN redemptions' :
       Cardinality({i \in 1..Len(redemptions'[token]) : redemptions'[token][i].valid}) <= 1

\* C34 as stated: a token or challenge sweep running at any point between
\* foreground operations removes only entries that the foreground
\* operation would already reject as expired; it never turns a valid
\* redemption into an invalid one and never lets a token be redeemed
\* twice, and deleting an absent key is a no-op.
C34_SweepRemovesOnlyExpired ==
  [][/\ SweepsNow =>
          /\ SweepsExpiredTokens
          /\ \A id \in challengeStore \ challengeStore' : now > challengeObjs[id].expiresAt
     /\ RedemptionUnharmed]_vars

\* C34, amended: the sweeps remove only entries that the foreground
\* operation would already reject as expired, except that the challenge
\* sweep, while more than MAX_CHALLENGES unexpired challenges are in the
\* store, also removes the oldest of them down to MAX_CHALLENGES; no sweep
\* turns a valid redemption into an invalid one or lets a token be redeemed
\* twice, and deleting an absent key is a no-op.  (Checked under
\* CleanupSpec, MAX_CHALLENGES scaled down.)
C34_SweepRemovesExpiredOrCrowdedOut ==
  [][/\ SweepsNow =>
          /\ SweepsExpiredTokens
          /\ \A id \in challengeStore \ challengeStore' :
               \/ now > challengeObjs[id].expiresAt
               \/ /\ Cardinality(LiveChallenges) > MAX_CHALLENGES
                  /\ Cardinality(challengeStore') = MAX_CHALLENGES
                  /\ \A kept \in challengeStore' :
                       ChallengeSortedBefore(challengeObjs, id, kept)
     /\ RedemptionUnharmed]_vars

\* C34 witness: the sweep has removed a challenge that nobody answered and
\* that has not expired, leaving MAX_CHALLENGES newer ones, and the
\* submission that names it is answered 'not found'
C34_EvictedChallengeNotFound ==
  /\ request.op = "/submit"
  /\ request.ref \in DOMAIN challengeObjs \ challengeStore
  /\ ~challengeObjs[request.ref].verified
  /\ ~(now > challengeObjs[request.ref].expiresAt)
  /\ Cardinality(challengeStore) = MAX_CHALLENGES
  /\ response = Respond("/submit", 404, "challenge_not_found")

\* a step in which POST /submit or a WebSocket verify message naming the
\* challenge id is taken
SubmitsFor(id) ==
  /\ TakesRequest
  /\ request'.op \in {"/submit", "ws"}
  /\ request'.kind = "ok"
  /\ request'.ref = id

\* C40: in the single-shot flow a submission that arrives after the
\* challenge's expiresAt never returns success and never yields a token,
\* whether the challenge was already swept or is still in the store: it is
\* answered 'not found', no verification is started for it, and the
\* challenge is gone from the store.  (Checked under CleanupSpec.)
C40_LateSubmissionNeverSucceeds ==
  [][\A id \in DOMAIN challengeObjs :
       (SubmitsFor(id) /\ now > challengeObjs[id].expiresAt)
         => /\ response' = Respond(request'.op, 404, "challenge_not_found")
            /\ pending' = pending
            /\ issued' = issued
            /\ tokenStore' = tokenStore
            /\ id \notin challengeStore']_vars

\* C40 witness: a submission with a sentence that passes the local checks
\* arrived after the expiry of a challenge that nobody had answered, and
\* was answered 'not found'
C40_LateSubmissionTurnedAway ==
  /\ request.op = "/submit"
  /\ request.kind = "ok"
  /\ request.ref \in DOMAIN challengeObjs
  /\ request.answerLength = Len(GoodAnswer(challengeObjs[request.ref].data))
  /\ ~challengeObjs[request.ref].verified
  /\ now > challengeObjs[request.ref].expiresAt
  /\ response = Respond("/submit", 404, "challenge_not_found")

\* a step in which /auth/submit takes a request that it turns away before
\* it looks at the block: no token in the bucket, a field missing, an answer
\* beyond the length limit, or a session that has passed or failed
TurnsSubmissionAway ==
  /\ TakesRequest
  /\ request'.op = "/auth/submit"
  /\ \/ ~admission'.allowed
     \/ request'.kind = "missing"
     \/ request'.kind = "ok" /\ request'.answerLength > MAX_SENTENCE_LENGTH
     \/ /\ request'.kind = "ok"
        /\ request'.ref \in sessions
        /\ sessionObjs[request'.ref].status # "active"

\* a step in which /auth/status answers a query
AnswersStatusQuery == TakesRequest /\ request'.op = "/auth/status"

\* C37: a submission to /auth/submit that is rejected by the rate limiter,
\* for an answer longer than 10,000 characters, for a missing field, or
\* because the session has already passed or failed, and every /auth/status
\* query, change no field of any session (in particular they do not advance
\* a block that has timed out) and issue no token.  (Checked under
\* StatusSpec.)
C37_RejectionsAndQueriesChangeNothing ==
  [][(TurnsSubmissionAway \/ AnswersStatusQuery)
       => /\ UNCHANGED <<sessions, sessionObjs, blockLog, pending, issued, tokenStore,
                         fresh>>
          /\ response'.op = request'.op
          /\ response'.outcome # "success"
          /\ TurnsSubmissionAway => response'.status \in {400, 429}]_vars

\* C37 witness: /auth/status has just answered a query for an active
\* session whose block has timed out: it reports blockExpired, and the
\* session is still on the block it was on
C37_ExpiredBlockOnlyReported ==
  /\ request.op = "/auth/status"
  /\ request.kind = "ok"
  /\ request.ref \in sessions
  /\ response.op = "/auth/status"
  /\ response.outcome = "status"
  /\ response.blockExpired
  /\ response.sessionStatus = "active"
  /\ sessionObjs[request.ref].currentBlock = response.currentBlock
  /\ isBlockExpired(sessionObjs[request.ref], now)

\* a step in which isTokenValid or getTokenInfo is called for token
LooksAt(token) ==
  /\ peeks' # peeks
  /\ request'.op \in {"isTokenValid", "getTokenInfo"}
  /\ request'.token = token

\* C38: isTokenValid and getTokenInfo do not consume a token: a call on an
\* unexpired, unredeemed token finds it and leaves it in the store, so that
\* after any number of such calls the next validateToken before the
\* expiry still returns valid=true.  (Checked under PeekSpec.)
C38_LookingDoesNotConsume ==
  [][\A token \in DOMAIN issued :
       /\ (/\ LooksAt(token)
           /\ token \in DOMAIN tokenStore
           /\ now <= tokenStore[token].expiresAt)
            => /\ tokenStore' = tokenStore
               /\ response'.outcome \in {"true", "info"}
       /\ (/\ Validates(token)
           /\ redemptions[token] = <<>>
           /\ now <= issued[token].expiresAt)
            => /\ token \in DOMAIN tokenStore
               /\ response'.outcome.valid]_vars

\* C38 witness: a token that was looked at MaxPeeks times is then redeemed
\* at its expiry time, and the redemption is valid
C38_RedeemedAfterLooks ==
  /\ request.op = "/validate"
  /\ request.token \in DOMAIN issued
  /\ PeeksAt(request.token) = MaxPeeks
  /\ now = issued[request.token].expiresAt
  /\ redemptions[request.token] = <<response.outcome>>
  /\ response.outcome.valid

====
